---- MODULE Spec2Model ----
(***************************************************************************)
(* Model of the inference pipeline of open-ai-router: the AIL endpoint     *)
(* (ServeHTTP), the shared request preamble (model-alias resolution), the  *)
(* recursive-handler dispatch of the plugin chain, the ToolPlugin          *)
(* re-entry through the handler invoker, and the provider iteration loop   *)
(* with failover.                                                          *)
(* A second specification, StreamSpec, follows one ServeStreaming call and  *)
(* the driver's goroutine step by step over their unbuffered channel.  A   *)
(* third, KVSpec, is the in-memory key-value store under Set, Get, Delete. *)
(* A fourth, HookSpec, applies the plugin hooks (StripTools, SlidingWindow, *)
(* Fuzz, the list walks of the chain, one serve call) to enumerated inputs. *)
(* EnsureSpec interleaves the goroutines that open the store of one KvTools *)
(* instance, SwarmSpec those of Swarm.executeWorkersInParallel.            *)
(*                                                                         *)
(* One client request is served by a stack of ServeHTTP activations: the   *)
(* bottom frame is the client's request, every frame above it is a         *)
(* re-entry made by a ToolPlugin through CaddyModuleInvoker.InvokeHandler. *)
(***************************************************************************)
EXTENDS Integers, Sequences, FiniteSets, TLC

VARIABLES
    cfg,        \* router configuration: provider table, resolved order, virtual mappings
    stack,      \* call stack of ServeHTTP activations (last element = running one)
    nextTrace,  \* source of fresh trace ids (uuid.New)
    driver,     \* the goroutine of DoInferenceStream and the upstream it reads
    serve,      \* one ServeStreaming call, step by step
    store,      \* a kv.MemoryStore
    hook,       \* one call of a plugin hook: its arguments and what it returned
    kvt,        \* one KvTools instance and the goroutines calling its hooks
    swarm       \* one call of Swarm.executeWorkersInParallel and its goroutines

vars == <<cfg, stack, nextTrace, driver, serve, store, hook, kvt, swarm>>

\* the values of kvt and swarm while no such call is observed
NoKvt == [op |-> "none"]
NoSwarm == [op |-> "none"]

\* the value of store while no MemoryStore exists
NoStore == <<>>

\* the value of hook while no plugin hook is observed
NoHook == [op |-> "none"]

----------------------------------------------------------------------------
(* Bounds of the model *)

\* longest body (messages and instructions behind SET_MODEL) of a request program
MaxMsgs == 4

\* longest provider list the router resolves for a model
MaxProviders == 2
\* deepest stack of nested ServeHTTP activations the model follows
MaxDepth == 3
\* chunks one upstream stream carries at most
MaxChunks == 2
\* largest maxItems of a MemoryStore
MaxItems == 2
\* the clock of the MemoryStore stops at MaxTime
MaxTime == 2
\* configured ToolPlugin.MaxRounds of the tool plugin "t1"
ToolRounds == 2
\* pieces of a DSPy params string at most
MaxParams == 3
\* goroutines that call the hooks of one KvTools instance
MaxCallers == 2
\* tasks of one swarm at most
MaxTasks == 3

(* Program constants *)

\* const maxRewriteDepth = 10
maxRewriteDepth == 10
\* NewToolPlugin: MaxRounds: 10, and the fallback when MaxRounds <= 0
DefaultMaxRounds == 10

----------------------------------------------------------------------------
(* Model strings.  A model string "[prefix/]base[+plugin[+plugin...]]" is  *)
(* the record of its three parts; base is a sequence of characters so that *)
(* substring matching (fuzz) is computed, not assumed.                     *)

Mdl(prefix, base, suffix) == [prefix |-> prefix, base |-> base, suffix |-> suffix]

\* the empty string
EmptyModel == Mdl("", <<>>, <<>>)

G4 == <<"g", "4">>
G == <<"g">>
AL == <<"a">>
OtherModel == <<"x">>

\* strings.ToLower on the provider prefixes that occur
ToLower(s) == CASE s = "VA" -> "va"
                [] s = "PA" -> "pa"
                [] OTHER -> s

\* strings.Contains(m, partial) on character sequences
Contains(m, partial) ==
    \E i \in 1..(Len(m) - Len(partial) + 1) :
        SubSeq(m, i, i + Len(partial) - 1) = partial

----------------------------------------------------------------------------
(* Providers *)

\* keys of router.ProviderConfigs
ProviderNames == {"pa", "pb"}
\* a name the router may resolve that has no entry in ProviderConfigs
UnknownProvider == "pz"
\* plugin.ProviderLister(): provisioned providers in order
ProviderLister == <<"pa", "pb">>
\* model ids each provider's list_models returns
ListedModels == [p \in ProviderNames |-> <<G4>>]

VirtualProviders == {"va", "vb"}

ProviderKinds == {"open", "private", "other", "noinf"}

\* ProviderService fields by kind of provider
ProviderService(kind) ==
    [Private        |-> (kind = "private"),
     ExportedModels |-> IF kind = "other" THEN {OtherModel} ELSE {},
     hasInference   |-> (kind # "noinf")]

IsModelExportedAlways(p, model) == TRUE

\* ProviderService.IsModelExported
IsModelExported(p, model) ==
    IF p.Private THEN FALSE
    ELSE IF Cardinality(p.ExportedModels) = 0 THEN TRUE
    ELSE model \in p.ExportedModels

----------------------------------------------------------------------------
(* Plugins *)

VirtualName(v) == CASE v = "va" -> "virtual:va" [] v = "vb" -> "virtual:vb"

\* strings.HasPrefix(rewriter, "virtual:")
HasVirtualPrefix(name) == \E v \in VirtualProviders : name = VirtualName(v)

\* "kv" is KvTools, a ToolPlugin with a Before hook of its own
ToolPlugins == {"t1", "t2", "kv"}
\* "af" has an After hook, "ef" has the side hooks OnError and StreamEnd
Registry == {"fuzz", "bf", "t1", "t2", "dspy", "kv", "af", "ef"}

IsModelRewritePlugin(p) == HasVirtualPrefix(p) \/ p = "fuzz"
IsBeforePlugin(p) == p \in {"bf", "t1", "t2", "kv", "stools", "slwin"}
IsAfterPlugin(p) == p = "af"
IsErrorPlugin(p) == p = "ef"
IsStreamEndPlugin(p) == p = "ef"
IsRecursiveHandlerPlugin(p) == p \in ToolPlugins \cup {"dspy"}

\* VirtualPlugin.RewriteModel for virtual provider v with mappings m
VirtualRewriteModel(v, m, model) ==
    IF model.prefix = "" THEN [model |-> model, matched |-> FALSE]
    ELSE IF ToLower(model.prefix) # v THEN [model |-> model, matched |-> FALSE]
    ELSE IF model.base \notin DOMAIN m \/ m[model.base] = EmptyModel
         THEN [model |-> model, matched |-> FALSE]
    ELSE LET target == m[model.base] IN
         [model |-> Mdl(target.prefix, target.base, target.suffix \o model.suffix),
          matched |-> TRUE]

\* Fuzz.getModels: the cached model ids of the provider (listed: what
\* list_models returned for each provisioned provider), nil for other names
getModels(listed, providerName) ==
    IF providerName \in DOMAIN listed THEN listed[providerName] ELSE <<>>

\* Fuzz.tryMatch over the provider's model ids
tryMatch(listed, providerName, partial) ==
    LET models == getModels(listed, providerName)
        hits == {i \in 1..Len(models) : Contains(models[i], partial)}
    IN  IF \E i \in 1..Len(models) : models[i] = partial
        THEN [m |-> <<>>, ok |-> FALSE]
        ELSE IF hits # {}
        THEN [m |-> models[CHOOSE i \in hits : \A j \in hits : i <= j], ok |-> TRUE]
        ELSE [m |-> <<>>, ok |-> FALSE]

\* Fuzz.RewriteModel
FuzzRewriteModel(listed, model) ==
    IF model.prefix # ""
    THEN LET provider == ToLower(model.prefix)
             r == tryMatch(listed, provider, model.base)
         IN IF r.ok THEN [model |-> Mdl(provider, r.m, model.suffix), matched |-> TRUE]
            ELSE [model |-> model, matched |-> FALSE]
    ELSE LET hits == {i \in 1..Len(ProviderLister) : tryMatch(listed, ProviderLister[i], model.base).ok}
         IN IF hits # {}
            THEN LET i == CHOOSE i \in hits : \A j \in hits : i <= j
                 IN [model |-> Mdl(ProviderLister[i], tryMatch(listed, ProviderLister[i], model.base).m, model.suffix),
                     matched |-> TRUE]
            ELSE [model |-> model, matched |-> FALSE]

\* ModelRewritePlugin.RewriteModel of the plugin named p
RewriteModel(c, p, model) ==
    IF p = "fuzz" THEN FuzzRewriteModel(ListedModels, model)
    ELSE LET v == CHOOSE v \in VirtualProviders : VirtualName(v) = p
         IN VirtualRewriteModel(v, c.ModelMappings[v], model)

\* plugin.TryResolvePlugins: the rewrite plugins of the virtual providers,
\* then the registered plugins named in the model's +suffix, in order
TryResolvePlugins(c, model) ==
    c.virtualChain \o SelectSeq(model.suffix, LAMBDA n : n \in Registry)

\* first index >= i of a ModelRewritePlugin of the chain that matches, 0 if none
RECURSIVE FirstRewrite(_, _, _, _)
FirstRewrite(c, chain, model, i) ==
    IF i > Len(chain) THEN 0
    ELSE IF IsModelRewritePlugin(chain[i]) /\ RewriteModel(c, chain[i], model).matched THEN i
    ELSE FirstRewrite(c, chain, model, i + 1)

\* PluginChain.RunModelRewrite
RunModelRewrite(c, chain, model) ==
    LET i == FirstRewrite(c, chain, model, 1)
    IN IF i = 0 THEN [model |-> model, rewriter |-> ""]
       ELSE [model |-> RewriteModel(c, chain[i], model).model, rewriter |-> chain[i]]

DepthReachedLate(i) == ~(i <= maxRewriteDepth)

\* the loop condition of RequestPreamble: for i := 0; i < maxRewriteDepth; i++
DepthReached(i) == ~(i < maxRewriteDepth)

\* RequestPreamble: the alias-resolution loop, from iteration i on.
\* n counts the chains resolved so far (calls of TryResolvePlugins).
RECURSIVE RewriteLoop(_, _, _, _, _, _)
RewriteLoop(c, model, i, virtualResolved, chain, n) ==
    IF DepthReached(i)
    THEN [model |-> model, chain |-> chain, virtualResolved |-> virtualResolved,
          resolutions |-> n, rewrites |-> i]
    ELSE LET ch == TryResolvePlugins(c, model)
             rw == RunModelRewrite(c, ch, model)
         IN IF rw.model # model
            THEN RewriteLoop(c, rw.model, i + 1,
                             virtualResolved \/ HasVirtualPrefix(rw.rewriter), ch, n + 1)
            ELSE [model |-> model, chain |-> ch, virtualResolved |-> virtualResolved,
                  resolutions |-> n + 1, rewrites |-> i]

\* RequestPreamble after the loop (l: what the loop ended with):
\* prog.SetModel(model), and the exports-bypass flag stored in the request
\* context when a virtual plugin has rewritten
SetModel(prog, ctx, l) ==
    [chain |-> l.chain,
     prog |-> [prog EXCEPT !.model = l.model],
     ctx |-> IF l.virtualResolved THEN [ctx EXCEPT !.bypass = TRUE] ELSE ctx,
     virtualResolved |-> l.virtualResolved,
     resolutions |-> l.resolutions,
     rewrites |-> l.rewrites]

\* RequestPreamble after auth collection: resolve aliases, set the model
RequestPreamble(c, prog, ctx) ==
    SetModel(prog, ctx, RewriteLoop(c, prog.model, 0, FALSE, <<>>, 0))

\* router.ResolveProvidersOrderAndModel: candidate names in order, and the
\* base model that is sent upstream
ResolveProvidersOrderAndModel(c, model) == [providers |-> c.order, model |-> model.base]

----------------------------------------------------------------------------
(* Response writers.  client = TRUE is the transport's writer, FALSE is a  *)
(* services.ResponseCaptureWriter.  Headers are lists of values (Set       *)
(* replaces the list, Add appends).                                        *)

NoPayload == {}
Frame(t, v) == [t |-> t, v |-> v]

NewWriter(client) ==
    [client |-> client, status |-> 0, broken |-> FALSE,
     prov |-> <<>>, model |-> <<>>, ctype |-> <<>>, body |-> <<>>]

\* ResponseCaptureWriter.WriteHeader overwrites; the transport keeps the first status
WriteHeader(w, code) ==
    IF w.client /\ w.status # 0 THEN w ELSE [w EXCEPT !.status = code]

\* ResponseCaptureWriter.Write appends; the transport's first Write commits
\* status 200; nothing reaches a client whose connection is broken
Write(w, frame) ==
    IF w.broken THEN w
    ELSE [w EXCEPT !.body = Append(@, frame),
                   !.status = IF w.client /\ w.status = 0 THEN 200 ELSE @]

\* http.Error(w, msg, code)
HttpError(w, code) ==
    Write(WriteHeader([w EXCEPT !.ctype = <<"text/plain">>], code), Frame("text", NoPayload))

\* replayCapture: add the captured headers, write the captured body
replayCapture(capture, w) ==
    LET h == [w EXCEPT !.prov = @ \o capture.prov,
                       !.model = @ \o capture.model,
                       !.ctype = @ \o capture.ctype]
    IN [h EXCEPT !.body = @ \o capture.body,
                 !.status = IF h.client /\ h.status = 0 THEN 200 ELSE @]

----------------------------------------------------------------------------
(* Upstream behaviour of one provider call and the driver built on it.     *)
(* kind: "transport" (the HTTP call fails), "non2xx" (upstream answers     *)
(* with an error status), "ok"; chunks: payloads the upstream sends, each  *)
(* payload the set of tool functions its message calls; midErr: the body   *)
(* breaks off after the chunks.                                            *)

Upstream(kind, chunks, midErr) == [kind |-> kind, chunks |-> chunks, midErr |-> midErr]

RECURSIVE UnionAll(_)
UnionAll(seq) == IF seq = <<>> THEN {} ELSE Head(seq) \cup UnionAll(Tail(seq))

\* ChatCompletions.DoInference: error on transport failure, on a non-200
\* status and on an unparseable body
DoInference(up) ==
    IF up.kind # "ok" THEN [err |-> up.kind, calls |-> NoPayload]
    ELSE IF up.midErr THEN [err |-> "parse", calls |-> NoPayload]
    ELSE [err |-> "nil", calls |-> UnionAll(up.chunks)]

Data(v) == [RuntimeError |-> FALSE, Data |-> v]
RuntimeError == [RuntimeError |-> TRUE, Data |-> NoPayload]

\* ChatCompletions.DoInferenceStream: only a transport failure is returned as
\* an error; a non-200 status is delivered as a RuntimeError item on the channel
DoInferenceStream(up) ==
    IF up.kind = "transport" THEN [err |-> "transport", stream |-> <<>>]
    ELSE IF up.kind = "non2xx" THEN [err |-> "nil", stream |-> <<RuntimeError>>]
    ELSE [err |-> "nil",
          stream |-> [i \in 1..Len(up.chunks) |-> Data(up.chunks[i])]
                     \o (IF up.midErr THEN <<RuntimeError>> ELSE <<>>)]

\* what a serve call returns: the writer, the error, and what it did on the
\* way (errorRuns: calls of chain.RunError, hookErrs: what RunError and
\* RunStreamEnd returned to it)
ServeResult(w, err, cmdCalled, hookErrs) ==
    [w |-> w, err |-> err, cmdCalled |-> cmdCalled, hookErrs |-> hookErrs,
     errorRuns |-> Cardinality({i \in 1..Len(hookErrs) : hookErrs[i].kind = "error"})]

HookErr(kind, err) == [kind |-> kind, err |-> err]

RunErrorFirst(chain, side) ==
    HookErr("error", IF side /\ \E i \in 1..Len(chain) : IsErrorPlugin(chain[i]) THEN "plugin" ELSE "nil")

\* PluginChain.RunError: every Error plugin is called, an error one of them
\* returns (side) is logged, the result is nil
RunError(chain, side) == HookErr("error", "nil")

\* PluginChain.RunStreamEnd: the first error a StreamEnd plugin returns
RunStreamEnd(chain, side) ==
    HookErr("streamEnd", IF side /\ \E i \in 1..Len(chain) : IsStreamEndPlugin(chain[i])
                         THEN "plugin" ELSE "nil")

\* indices of the chain whose After hook can return an error
FailingAfter(chain) == {i \in 1..Len(chain) : chain[i] = "af"}

\* PluginChain.RunAfter: the After-capable plugins run in chain order up to
\* and including the one that fails (failAt = 0: none fails)
RunAfter(chain, failAt) ==
    [called |-> SelectSeq([i \in 1..Len(chain) |-> i],
                          LAMBDA i : IsAfterPlugin(chain[i]) /\ (failAt = 0 \/ i <= failAt)),
     err |-> IF failAt = 0 THEN "nil" ELSE "after"]

\* AILModule.ServeNonStreaming
ServeNonStreaming(up, w, chain, afterFailAt, side) ==
    LET r == DoInference(up)
    IN IF r.err # "nil" THEN ServeResult(w, r.err, TRUE, <<RunError(chain, side)>>)
       ELSE IF RunAfter(chain, afterFailAt).err # "nil"
       THEN ServeResult(w, RunAfter(chain, afterFailAt).err, TRUE, <<>>)
       ELSE ServeResult(Write([w EXCEPT !.ctype = <<"text/plain">>], Frame("resp", r.calls)),
                        "nil", TRUE, <<>>)

\* quota of a serve call on a writer whose connection does not break
NoBreak == 0 - 1

\* one write of the SSE writer.  quota is the number of writes the client's
\* connection still takes before it breaks; a broken connection stays broken
\* and every later write on it fails as well
sseWrite(w, frame, quota) ==
    IF w.broken \/ quota = 0
    THEN [w |-> [w EXCEPT !.broken = TRUE], quota |-> 0, ok |-> FALSE]
    ELSE [w |-> Write(w, frame), quota |-> IF quota > 0 THEN quota - 1 ELSE quota, ok |-> TRUE]

\* AILModule.ServeStreaming: the loop over the items of the driver's channel.
\* A RuntimeError item: error frame, RunError, return nil.  A failed WriteRaw:
\* return the error.  Channel closed: WriteDone, return nil
OnRuntimeErrorFail(w, quota, chain, side) ==
    ServeResult(sseWrite(w, Frame("error", NoPayload), quota).w, "stream", TRUE, <<RunError(chain, side)>>)

\* the loop body for an item that carries a RuntimeError
OnRuntimeError(w, quota, chain, side) ==
    ServeResult(sseWrite(w, Frame("error", NoPayload), quota).w, "nil", TRUE, <<RunError(chain, side)>>)

RECURSIVE StreamLoop(_, _, _, _, _)
StreamLoop(stream, w, quota, chain, side) ==
    IF stream = <<>>
    THEN ServeResult(sseWrite(w, Frame("done", NoPayload), quota).w, "nil", TRUE,
                     <<RunStreamEnd(chain, side)>>)
    ELSE IF Head(stream).RuntimeError
    THEN OnRuntimeError(w, quota, chain, side)
    ELSE LET d == sseWrite(w, Frame("data", Head(stream).Data), quota)
         IN IF ~d.ok THEN ServeResult(d.w, "write", TRUE, <<>>)
            ELSE StreamLoop(Tail(stream), d.w, d.quota, chain, side)

\* the error and done frames written when DoInferenceStream returns an error
StartFailed(w, quota) ==
    LET e == sseWrite(w, Frame("error", NoPayload), quota)
    IN sseWrite(e.w, Frame("done", NoPayload), e.quota).w

\* AILModule.ServeStreaming
ServeStreaming(up, w, quota, chain, side) ==
    LET hb == sseWrite([w EXCEPT !.ctype = <<"text/event-stream">>], Frame("heartbeat", NoPayload), quota)
        r == DoInferenceStream(up)
    IN IF ~hb.ok
       THEN ServeResult(hb.w, "write", FALSE, <<>>)
       ELSE IF r.err # "nil"
       THEN ServeResult(StartFailed(hb.w, hb.quota), r.err, TRUE, <<RunError(chain, side)>>)
       ELSE StreamLoop(r.stream, hb.w, hb.quota, chain, side)

----------------------------------------------------------------------------
(* kv.MemoryStore: data maps a key to its entry, order is the slice of     *)
(* keys in insertion order.  expiresAt = 0 is the zero time (no expiry).   *)
(* now is time.Now().  live records the keys of data in the order of       *)
(* their insertion.                                                        *)

\* kvKey(traceID, callID): "kvtools:<traceID>:<callID>"; NoTrace is the empty trace id
NoTrace == 0
kvKey(traceID, callID) == <<traceID, callID>>
NoKey == kvKey(NoTrace, 0)
Keys == {kvKey(NoTrace, c) : c \in {1, 2, 3}}
Values == {"v1", "v2"}
TTLs == {0, 1}
ErrNotFound == "ErrNotFound"

\* ttl records the ttl argument of the Set that stored the entry
memEntry(value, expiresAt, ttl) == [value |-> value, expiresAt |-> expiresAt, ttl |-> ttl]

NoSet == [key |-> NoKey, removed |-> {}, liveBefore |-> 0, oldest |-> NoKey]
NoGet == [key |-> NoKey, result |-> ErrNotFound]
NoEntry == memEntry("", 0, 0)

\* got and lastSet record the last call when it was a Get or a Set; latest
\* records for every key the entry of its most recent Set, NoEntry once the
\* key was deleted or evicted
NewMemoryStore(maxItems, defaultTTL) ==
    [maxItems |-> maxItems, defaultTTL |-> defaultTTL,
     data |-> [k \in {} |-> NoEntry], order |-> <<>>,
     now |-> 0, got |-> NoGet, live |-> <<>>, lastSet |-> NoSet,
     latest |-> [k \in Keys |-> NoEntry]]

Without(seq, k) == SelectSeq(seq, LAMBDA x : x # k)

\* delete(m.data, key)
MapDelete(data, key) == [k \in DOMAIN data \ {key} |-> data[k]]

\* m.data[key] = entry
MapPut(data, key, entry) ==
    [k \in DOMAIN data \cup {key} |-> IF k = key THEN entry ELSE data[k]]

AtCapacityLate(m) == Len(m.order) > m.maxItems

\* MemoryStore.Set: len(m.order) >= m.maxItems
AtCapacity(m) == Len(m.order) >= m.maxItems

\* MemoryStore.Set for a key that is not in data: evict the head of order if
\* at capacity, append the key
Insert(m, key) ==
    IF AtCapacity(m)
    THEN [m EXCEPT !.order = Append(Tail(@), key),
                   !.data = MapDelete(@, Head(m.order)),
                   !.live = Append(Without(Without(@, Head(m.order)), key), key)]
    ELSE [m EXCEPT !.order = Append(@, key), !.live = Append(@, key)]

\* MemoryStore.Set: the expiry time of the new entry
ExpiresAt(m, ttl) ==
    LET t == IF ttl = 0 THEN m.defaultTTL ELSE ttl
    IN IF t > 0 THEN m.now + t ELSE 0

\* MemoryStore.Set
MemSet(m, key, value, ttl) ==
    LET entry == memEntry(value, ExpiresAt(m, ttl), ttl)
        i == IF key \in DOMAIN m.data THEN m ELSE Insert(m, key)
        removed == DOMAIN m.data \ DOMAIN i.data
    IN [i EXCEPT !.data = MapPut(@, key, entry),
                 !.got = NoGet,
                 !.latest = [k \in Keys |-> IF k = key THEN entry
                                            ELSE IF k \in removed THEN NoEntry ELSE m.latest[k]],
                 !.lastSet = [key |-> key,
                              removed |-> removed,
                              liveBefore |-> Cardinality(DOMAIN m.data),
                              oldest |-> IF m.live = <<>> THEN NoKey ELSE Head(m.live)]]

\* the test of MemoryStore.Get on the expiry time of an entry
Expired(e, now) == e.expiresAt # 0 /\ now > e.expiresAt

MemGetNoExpiry(m, key) ==
    IF key \notin DOMAIN m.data THEN ErrNotFound ELSE m.data[key].value

\* MemoryStore.Get
MemGet(m, key) ==
    IF key \notin DOMAIN m.data THEN ErrNotFound
    ELSE IF Expired(m.data[key], m.now) THEN ErrNotFound
    ELSE m.data[key].value

\* MemoryStore.Delete: the key stays in order
MemDelete(m, key) ==
    [m EXCEPT !.data = MapDelete(@, key), !.live = Without(@, key),
              !.got = NoGet, !.lastSet = NoSet, !.latest[key] = NoEntry]

----------------------------------------------------------------------------
(* KvTools.  A program carries its completed tool interactions, oldest     *)
(* first, each the call id and the RESULT_DATA of its tool result.         *)

Interaction(id, data) == [id |-> id, data |-> data]

\* the "memory" backend: NewMemoryStore(10000, 30*time.Minute)
memoryMaxItems == 10000
memoryDefaultTTL == 30
\* the ttl of KvTools' Set calls: 30*time.Minute
kvToolsTTL == 30

\* KvTools.ensureStore
ensureStore(st) ==
    IF st = NoStore THEN NewMemoryStore(memoryMaxItems, memoryDefaultTTL) ELSE st

\* KvTools.cacheAndStrip, the loop that caches the results of toCache
RECURSIVE CacheAll(_, _, _)
CacheAll(st, traceID, toCache) ==
    IF toCache = <<>> THEN st
    ELSE CacheAll(MemSet(st, kvKey(traceID, Head(toCache).id), Head(toCache).data, kvToolsTTL),
                  traceID, Tail(toCache))

\* KvTools.cacheAndStrip: with more than one interaction the results of all but
\* the last are stored under the trace id of the request context and removed
cacheAndStrip(st, traceID, prog) ==
    LET n == Len(prog.tools)
    IN IF n <= 1 THEN [store |-> ensureStore(st), prog |-> prog]
       ELSE [store |-> CacheAll(ensureStore(st), traceID, SubSeq(prog.tools, 1, n - 1)),
             prog |-> [prog EXCEPT !.tools = <<prog.tools[n]>>]]

NotFoundText == "tool result not found"

\* KvTools.HandleToolCall: the stored value for ctx.TraceID and the call id
\* asked for, or the not-found text
HandleToolCall(st, traceID, callID) ==
    LET val == MemGet(ensureStore(st), kvKey(traceID, callID))
    IN IF val = ErrNotFound THEN NotFoundText ELSE val

----------------------------------------------------------------------------
(* Plugin chain hooks *)

NilErr == [at |-> 0, kind |-> "nil"]
Err(at, kind) == [at |-> at, kind |-> kind]

\* indices of the chain whose Before hook can return an error
FailingBefore(chain) == {i \in 1..Len(chain) : chain[i] = "bf"}

\* PluginChain.RunBefore: the Before-capable plugins run in chain order up to
\* and including the one that fails (failAt = 0: none fails)
RunBefore(chain, failAt) ==
    [called |-> SelectSeq([i \in 1..Len(chain) |-> i],
                          LAMBDA i : IsBeforePlugin(chain[i]) /\ (failAt = 0 \/ i <= failAt)),
     err |-> IF failAt = 0 THEN "nil" ELSE "before"]

NoRecursiveHandler(chain, i) == Len(chain) + 1

\* first index >= i of the chain that holds a RecursiveHandlerPlugin,
\* Len(chain) + 1 if there is none: the walk of RunRecursiveHandlers
RECURSIVE NextRecursiveHandler(_, _)
NextRecursiveHandler(chain, i) ==
    IF i > Len(chain) THEN i
    ELSE IF IsRecursiveHandlerPlugin(chain[i]) THEN i
    ELSE NextRecursiveHandler(chain, i + 1)

----------------------------------------------------------------------------
(* ToolPlugin *)

\* the context key a recursive-handler plugin tests: type toolRecursionGuard
\* struct{} for every ToolPlugin, type dspyRecursionGuard struct{} for DSPy
GuardKey(plugin) ==
    IF plugin = "dspy" THEN "dspyRecursionGuard" ELSE "toolRecursionGuard"

GuardSeenNever(ctx, plugin) == FALSE

\* r.Context().Value(<guard key>{}) != nil
GuardSeen(ctx, plugin) == GuardKey(plugin) \in ctx.guards

\* the function name each tool handler defines (DEF_NAME of its ToolDefs)
ToolFn(plugin) ==
    CASE plugin = "t1" -> "fn1" [] plugin = "t2" -> "fn2" [] plugin = "kv" -> "get_tool_result"

\* tp.MaxRounds of each plugin instance (0: not set)
MaxRoundsField(plugin) ==
    CASE plugin = "t1" -> ToolRounds [] plugin = "kv" -> DefaultMaxRounds [] OTHER -> 0

\* maxRounds := tp.MaxRounds; if maxRounds <= 0 { maxRounds = 10 }
MaxRoundsOf(plugin) ==
    IF MaxRoundsField(plugin) <= 0 THEN DefaultMaxRounds ELSE MaxRoundsField(plugin)

\* CaddyModuleInvoker.ParseCapturedResponse with the AIL response parser:
\* the tool calls of the captured response, or a parse error
ParseCapturedResponse(capture) ==
    IF capture.body = <<>> THEN [ok |-> TRUE, calls |-> NoPayload]
    ELSE IF capture.ctype # <<>> /\ Head(capture.ctype) = "text/event-stream"
    THEN LET b == capture.body
             stop == {i \in 1..Len(b) : b[i].t \in {"done", "error"}}
             last == IF stop = {} THEN Len(b) ELSE (CHOOSE i \in stop : \A j \in stop : i <= j) - 1
         IN [ok |-> TRUE,
             calls |-> UNION {b[i].v : i \in {j \in 1..last : b[j].t = "data"}}]
    ELSE IF Len(capture.body) = 1 /\ capture.body[1].t = "resp"
    THEN [ok |-> TRUE, calls |-> capture.body[1].v]
    ELSE [ok |-> FALSE, calls |-> NoPayload]

HandleToolCallsAll(plugin, calls) == calls

\* ToolPlugin.dispatchCalls: the calls of the response whose name is one of
\* the handler's DEF_NAME definitions; HandleToolCall is called once for each
HandleToolCalls(plugin, calls) == calls \cap {ToolFn(plugin)}

\* ToolPlugin.dispatchCalls: number of calls of the response dispatched to the
\* handler (accepts: HandleToolCall reports the call as its own)
dispatchCalls(plugin, calls, accepts) ==
    IF accepts THEN Cardinality(HandleToolCalls(plugin, calls)) ELSE 0

LoopContinuesInclusive(round, maxRounds) == round <= maxRounds

\* the dispatch loop of ToolPlugin.RecursiveHandler:
\* for round := 1; round < maxRounds; round++
LoopContinues(round, maxRounds) == round < maxRounds

----------------------------------------------------------------------------
(* ServeHTTP activations *)

NewCtx == [bypass |-> FALSE, guards |-> {}, trace |-> 0, hasProg |-> FALSE]

NewActivation(w, ctx, prog) ==
    [pc |-> "start", w |-> w, ctx |-> ctx, prog |-> prog, curProg |-> prog,
     chain |-> <<>>, resolutions |-> 0, rewrites |-> 0, virtualResolved |-> FALSE,
     rhIdx |-> 0, round |-> 0, invocations |-> 0, rhLog |-> <<>>, handledBy |-> 0,
     rhErr |-> "nil", handleCalls |-> 0, lastDispatch |-> [calls |-> 0, handled |-> 0],
     replays |-> 0, replayed |-> NewWriter(FALSE), toolResults |-> <<>>,
     providers |-> <<>>, model |-> <<>>, provIdx |-> 0,
     displayErr |-> NilErr, modelNotExported |-> FALSE, attempts |-> <<>>,
     sidecar |-> "none", sent |-> <<>>, outcome |-> "running"]

\* one call of a RecursiveHandler by RunRecursiveHandlers, and what it returned
RHEntry(plugin, handled, guarded, err) ==
    [plugin |-> plugin, handled |-> handled, guarded |-> guarded, err |-> err]

Top == stack[Len(stack)]
SetTop(f) == [stack EXCEPT ![Len(stack)] = f]

\* payloads an upstream may answer with: plain text, or a call of a function
\* defined by a tool plugin of the chain
Payloads(chain) == {NoPayload} \cup {{ToolFn(chain[i])} : i \in {j \in 1..Len(chain) : chain[j] \in ToolPlugins}}

Upstreams(chain) ==
    {Upstream("transport", <<>>, FALSE), Upstream("non2xx", <<>>, FALSE)}
    \cup {Upstream("ok", <<p>>, e) : p \in Payloads(chain), e \in BOOLEAN}

\* AILModule.ServeHTTP up to the recursive handlers: take the program from the
\* context or parse the body, look up the router, run the preamble, draw a trace id
ServeHTTPStart ==
    /\ stack # <<>>
    /\ Top.pc = "start"
    /\ \E entry \in {"ok", "badbody", "norouter", "authfail"} :
        /\ entry = "badbody" => ~Top.ctx.hasProg
        /\ IF entry = "badbody"
           THEN /\ stack' = SetTop([Top EXCEPT !.pc = "done", !.outcome = "badwire",
                                               !.w = HttpError(Top.w, 400)])
                /\ UNCHANGED nextTrace
           ELSE IF entry = "norouter"
           THEN /\ stack' = SetTop([Top EXCEPT !.pc = "done", !.outcome = "norouter",
                                               !.w = HttpError(Top.w, 500)])
                /\ UNCHANGED nextTrace
           ELSE IF entry = "authfail"
           THEN /\ stack' = SetTop([Top EXCEPT !.pc = "done", !.outcome = "authfail",
                                               !.w = HttpError(Top.w, 401)])
                /\ UNCHANGED nextTrace
           ELSE \E pre \in {RequestPreamble(cfg, Top.prog, Top.ctx)} :
                   /\ stack' = SetTop([Top EXCEPT
                            !.pc = "rh",
                            !.prog = pre.prog,
                            !.ctx = [pre.ctx EXCEPT !.trace = nextTrace],
                            !.chain = pre.chain,
                            !.resolutions = pre.resolutions,
                            !.rewrites = pre.rewrites,
                            !.virtualResolved = pre.virtualResolved,
                            !.rhIdx = NextRecursiveHandler(pre.chain, 1)])
                   /\ nextTrace' = nextTrace + 1
    /\ UNCHANGED <<cfg, driver, serve, store, hook, kvt, swarm>>

InvokeHandlerDropBypass(prog, w, ctx) ==
    NewActivation(w, [ctx EXCEPT !.hasProg = TRUE, !.bypass = FALSE], prog)

\* CaddyModuleInvoker.InvokeHandler: a new ServeHTTP activation with the
\* program stored in the (cloned) request context, writing to w
InvokeHandler(prog, w, ctx) ==
    NewActivation(w, [ctx EXCEPT !.hasProg = TRUE], prog)

\* RunRecursiveHandlers at a ToolPlugin that finds its guard in the context:
\* handled=false, the walk goes on with the next plugin
RecursiveHandlerGuarded ==
    /\ stack # <<>>
    /\ Top.pc = "rh"
    /\ Top.rhIdx <= Len(Top.chain)
    /\ GuardSeen(Top.ctx, Top.chain[Top.rhIdx])
    /\ stack' = SetTop([Top EXCEPT
            !.rhLog = Append(@, RHEntry(Top.rhIdx, FALSE, TRUE, "nil")),
            !.rhIdx = NextRecursiveHandler(Top.chain, Top.rhIdx + 1)])
    /\ UNCHANGED <<cfg, nextTrace, driver, serve, store, hook, kvt, swarm>>

\* RunRecursiveHandlers at a ToolPlugin without guard in the context: the
\* plugin installs the guard and invokes the pipeline with a capture writer
RecursiveHandlerInvoke ==
    /\ stack # <<>>
    /\ Top.pc = "rh"
    /\ Top.rhIdx <= Len(Top.chain)
    /\ Top.chain[Top.rhIdx] \in ToolPlugins
    /\ ~GuardSeen(Top.ctx, Top.chain[Top.rhIdx])
    /\ Len(stack) < MaxDepth
    /\ LET guardR == [Top.ctx EXCEPT !.guards = @ \cup {GuardKey(Top.chain[Top.rhIdx])}]
       IN stack' = Append(SetTop([Top EXCEPT !.pc = "wait", !.round = 0, !.invocations = 1,
                                             !.sent = <<Top.prog>>]),
                          InvokeHandler(Top.prog, NewWriter(FALSE), guardR))
    /\ UNCHANGED <<cfg, nextTrace, driver, serve, store, hook, kvt, swarm>>

\* ToolPlugin.RecursiveHandler: the results of dispatchCalls for one capture
Dispatched(o, plugin, calls, nHandled) ==
    [o EXCEPT !.handleCalls = @ + Cardinality(HandleToolCalls(plugin, calls)),
              !.lastDispatch = [calls |-> Cardinality(HandleToolCalls(plugin, calls)),
                                handled |-> nHandled]]

\* ToolPlugin.RecursiveHandler: the capture could not be parsed, dispatchCalls
\* is not reached
NotDispatched(o) == [o EXCEPT !.lastDispatch = [calls |-> 0, handled |-> 0]]

\* ToolPlugin.RecursiveHandler: replayCapture(capture, w); return true, nil
ReplayAndReturn(o, capture) ==
    [o EXCEPT !.pc = "done", !.outcome = "handled", !.handledBy = o.rhIdx,
              !.rhLog = Append(@, RHEntry(o.rhIdx, TRUE, FALSE, "nil")),
              !.replays = @ + 1, !.replayed = capture,
              !.w = replayCapture(capture, o.w)]

\* currentProg for the next round: the assistant's messages and the tool
\* results of this round appended
AppendResults(prog, o) ==
    [prog EXCEPT !.tools = Append(@, o.toolResults[Len(o.toolResults)])]

NextRoundReplaying(o, capture) ==
    [o EXCEPT !.round = @ + 1, !.invocations = @ + 1,
              !.replays = @ + 1, !.w = replayCapture(capture, o.w)]

\* ToolPlugin.RecursiveHandler: the calls were dispatched, the loop goes into
\* its next round with a new capture writer; nothing is written to w
NextRound(o, capture) ==
    [o EXCEPT !.round = @ + 1, !.invocations = @ + 1,
              !.sent = Append(@, AppendResults(o.curProg, o))]

\* may HandleToolCall report a call as not its own: KvTools.HandleToolCall
\* always answers, other handlers may decline
Accepts(plugin, parsed) ==
    IF ~(parsed.ok /\ ToolFn(plugin) \in parsed.calls) THEN {FALSE}
    ELSE IF plugin = "kv" THEN {TRUE} ELSE BOOLEAN

\* the call id the model passes to get_tool_result: that of the first
\* interaction of the client's conversation
AskedCallID == 1

\* ToolPlugin.dispatchCalls: the result text of the dispatched call.  traceID
\* is ctx.TraceID, read from the request context when RecursiveHandler started
ToolResults(o, plugin, nHandled, st) ==
    IF nHandled = 0 THEN o
    ELSE [o EXCEPT !.toolResults =
             Append(@, Interaction(10 + o.round,
                                   IF plugin = "kv" THEN HandleToolCall(st, o.ctx.trace, AskedCallID)
                                   ELSE "result"))]

\* ToolPlugin.RecursiveHandler after an inner invocation has returned: parse
\* the capture, dispatch the calls, then replay or go into the next round
ToolPluginResume ==
    /\ Len(stack) >= 2
    /\ Top.pc = "done"
    /\ stack[Len(stack) - 1].pc = "wait"
    /\ LET inner == Top
           outer == stack[Len(stack) - 1]
           plugin == outer.chain[outer.rhIdx]
           below == SubSeq(stack, 1, Len(stack) - 2)
       IN \E capture \in {inner.w} : \E parsed \in {ParseCapturedResponse(capture)} :
          \E accepts \in Accepts(plugin, parsed) :
            LET \* round 0 hands over the caller's own program, later rounds a clone
                o1 == [outer EXCEPT !.prog = IF outer.round = 0 THEN inner.prog ELSE @,
                                    !.curProg = inner.prog]
                nHandled == dispatchCalls(plugin, parsed.calls, accepts)
            IN /\ store' = IF parsed.ok /\ nHandled > 0 /\ plugin = "kv" THEN ensureStore(store) ELSE store
               /\ IF ~parsed.ok
                  THEN stack' = Append(below, ReplayAndReturn(NotDispatched(o1), capture))
                  ELSE \E o2 \in {ToolResults(Dispatched(o1, plugin, parsed.calls, nHandled),
                                               plugin, nHandled, store)} :
                       IF nHandled = 0
                       THEN stack' = Append(below, ReplayAndReturn(o2, capture))
                       ELSE IF LoopContinues(outer.round + 1, MaxRoundsOf(plugin))
                       THEN LET guardR == [outer.ctx EXCEPT !.guards = @ \cup {GuardKey(plugin)}]
                            IN stack' = Append(Append(below, NextRound(o2, capture)),
                                               InvokeHandler(AppendResults(inner.prog, o2),
                                                             NewWriter(FALSE), guardR))
                       ELSE stack' = Append(below, ReplayAndReturn(o2, capture))
    /\ UNCHANGED <<cfg, nextTrace, driver, serve, hook, kvt, swarm>>

\* what the DSPy sidecar call of one request can come to
SidecarResults(streaming) ==
    {"badkind", "payload", "post", "ok"} \cup (IF streaming THEN {"streamerr"} ELSE {})

\* the results after which the sidecar was called (the kind was valid and the
\* payload was built)
SidecarCalled == {"post", "streamerr", "ok"}

\* DSPy.RecursiveHandler without its guard in the context: the plugin answers
\* the request itself from the sidecar and reports handled=true; ServeHTTP
\* writes a 500 when the handler returned an error. The handler passes no
\* derived context on: r.Context() is the same before and after the call
DSPyRecursiveHandler ==
    /\ stack # <<>>
    /\ Top.pc = "rh"
    /\ Top.rhIdx <= Len(Top.chain)
    /\ Top.chain[Top.rhIdx] = "dspy"
    /\ ~GuardSeen(Top.ctx, "dspy")
    /\ \E res \in SidecarResults(Top.prog.streaming) :
        LET sse == [Top.w EXCEPT !.ctype = <<"text/event-stream">>]
            hb == Write(sse, Frame("heartbeat", NoPayload))
            w1 == CASE res = "badkind" -> HttpError(Top.w, 400)
                    [] res = "payload" -> HttpError(Top.w, 500)
                    [] res = "post" -> Top.w
                    [] res = "streamerr" ->
                         Write(Write(hb, Frame("error", NoPayload)), Frame("done", NoPayload))
                    [] res = "ok" ->
                         IF Top.prog.streaming
                         THEN Write(Write(hb, Frame("data", NoPayload)), Frame("done", NoPayload))
                         ELSE Write([Top.w EXCEPT !.ctype = <<"application/json">>],
                                    Frame("resp", NoPayload))
            err == IF res \in {"post", "streamerr"} THEN "sidecar" ELSE "nil"
        IN stack' = SetTop([Top EXCEPT
                !.pc = "done", !.outcome = "handled", !.handledBy = Top.rhIdx,
                !.rhErr = err, !.sidecar = res,
                !.rhLog = Append(@, RHEntry(Top.rhIdx, TRUE, FALSE, err)),
                !.w = IF err # "nil" THEN HttpError(w1, 500) ELSE w1])
    /\ UNCHANGED <<cfg, nextTrace, driver, serve, store, hook, kvt, swarm>>

\* RunRecursiveHandlers found no plugin that handled: RunInferencePipeline
\* starts and resolves the candidate providers
RecursiveHandlersNone ==
    /\ stack # <<>>
    /\ Top.pc = "rh"
    /\ Top.rhIdx > Len(Top.chain)
    /\ LET res == ResolveProvidersOrderAndModel(cfg, Top.prog.model)
       IN stack' = SetTop([Top EXCEPT !.pc = "pipeline", !.providers = res.providers,
                                      !.model = res.model, !.provIdx = 1])
    /\ UNCHANGED <<cfg, nextTrace, driver, serve, store, hook, kvt, swarm>>

Attempt(name, outcome, before, cmdCalled, up) ==
    [name |-> name, outcome |-> outcome, before |-> before, cmdCalled |-> cmdCalled, up |-> up,
     errorRuns |-> 0, midErr |-> FALSE, wrote |-> <<>>]

\* the frames a serve call added to the body of the writer
Wrote(w, sw) == SubSeq(sw.body, Len(w.body) + 1, Len(sw.body))

\* an attempt that reached the serve call
ServeAttempt(f, name, outcome, called, s, up) ==
    [Attempt(name, outcome, called, s.cmdCalled, up.kind)
        EXCEPT !.errorRuns = s.errorRuns, !.midErr = up.midErr, !.wrote = Wrote(f.w, s.w)]

\* the provider loop skips a candidate: unknown name, not exported, no inference command
SkipProvider(f, name, why) ==
    [f EXCEPT !.provIdx = @ + 1,
              !.modelNotExported = @ \/ (why = "notexported"),
              !.attempts = Append(@, Attempt(name, why, <<>>, FALSE, "none"))]

BeforeFailedReturn(f, name, called) ==
    [f EXCEPT !.pc = "done", !.outcome = "error", !.w = HttpError(f.w, 500),
              !.displayErr = Err(f.provIdx, "before"),
              !.attempts = Append(@, Attempt(name, "before", called, FALSE, "none"))]

\* the provider loop when chain.RunBefore returns an error: keep the first
\* error, continue with the next candidate
BeforeFailed(f, name, called) ==
    [f EXCEPT !.provIdx = @ + 1,
              !.displayErr = IF @ = NilErr THEN Err(f.provIdx, "before") ELSE @,
              !.attempts = Append(@, Attempt(name, "before", called, FALSE, "none"))]

ServeFailedKeepLast(f, name, called, s, up) ==
    [f EXCEPT !.provIdx = @ + 1,
              !.w = s.w,
              !.displayErr = Err(f.provIdx, s.err),
              !.attempts = Append(@, ServeAttempt(f, name, s.err, called, s, up))]

\* the provider loop when the serve call returns an error: keep the first
\* error, continue with the next candidate
ServeFailed(f, name, called, s, up) ==
    [f EXCEPT !.provIdx = @ + 1,
              !.w = s.w,
              !.displayErr = IF @ = NilErr THEN Err(f.provIdx, s.err) ELSE @,
              !.attempts = Append(@, ServeAttempt(f, name, s.err, called, s, up))]

\* the provider loop when the serve call returns nil: return nil
Served(f, name, called, s, up) ==
    [f EXCEPT !.pc = "done", !.outcome = "served",
              !.w = s.w,
              !.attempts = Append(@, ServeAttempt(f, name, "ok", called, s, up))]

\* the writes the client's connection takes during one serve call before it
\* breaks; a ResponseCaptureWriter never fails
WriteQuotas(w, streaming) ==
    IF w.client /\ streaming /\ ~w.broken THEN {0, 1, NoBreak} ELSE {NoBreak}

\* RunInferencePipeline's choice between the handler's two serve calls
Serve(up, w, quota, streaming, chain, afterFailAt, side) ==
    IF streaming THEN ServeStreaming(up, w, quota, chain, side)
    ELSE ServeNonStreaming(up, w, chain, afterFailAt, side)

\* may a side hook (OnError, StreamEnd) of the chain return an error
SideErrors(chain) ==
    IF \E i \in 1..Len(chain) : IsErrorPlugin(chain[i]) \/ IsStreamEndPlugin(chain[i])
    THEN BOOLEAN ELSE {FALSE}

\* w.Header().Set of X-Real-Provider-Id and X-Real-Model-Id
SetRealHeaders(w, name, model) == [w EXCEPT !.prov = <<name>>, !.model = <<model>>]

\* chain.RunBefore on the provider's clone of the program: what the Before
\* hooks that ran did to the store (only KvTools.Before touches it)
BeforeStore(st, chain, called, traceID, prog) ==
    IF \E k \in 1..Len(called) : chain[called[k]] = "kv"
    THEN cacheAndStrip(st, traceID, prog).store
    ELSE st

\* RunInferencePipeline: one iteration of the provider loop
TryProvider ==
    /\ stack # <<>>
    /\ Top.pc = "pipeline"
    /\ Top.provIdx <= Len(Top.providers)
    /\ LET name == Top.providers[Top.provIdx]
       IN IF name \notin ProviderNames
          THEN stack' = SetTop(SkipProvider(Top, name, "unknown")) /\ UNCHANGED store
          ELSE LET p == ProviderService(cfg.kind[name])
               IN IF ~Top.ctx.bypass /\ ~IsModelExported(p, Top.model)
                  THEN stack' = SetTop(SkipProvider(Top, name, "notexported")) /\ UNCHANGED store
                  ELSE IF ~p.hasInference
                  THEN stack' = SetTop(SkipProvider(Top, name, "noinference")) /\ UNCHANGED store
                  ELSE \E failAt \in {0} \cup FailingBefore(Top.chain), up \in Upstreams(Top.chain),
                          quota \in WriteQuotas(Top.w, Top.prog.streaming),
                          afterFailAt \in {0} \cup FailingAfter(Top.chain), side \in SideErrors(Top.chain) :
                        \E b \in {RunBefore(Top.chain, failAt)},
                           s \in {Serve(up, SetRealHeaders(Top.w, name, Top.model), quota,
                                        Top.prog.streaming, Top.chain, afterFailAt, side)} :
                           /\ store' = BeforeStore(store, Top.chain, b.called, Top.ctx.trace, Top.prog)
                           /\ IF b.err # "nil"
                              THEN stack' = SetTop(BeforeFailed(Top, name, b.called))
                              ELSE IF s.err # "nil"
                              THEN stack' = SetTop(ServeFailed(Top, name, b.called, s, up))
                              ELSE stack' = SetTop(Served(Top, name, b.called, s, up))
    /\ UNCHANGED <<cfg, nextTrace, driver, serve, hook, kvt, swarm>>

\* RunInferencePipeline after the loop: does the pipeline emit the 404 body
ModelNotFound(f) == f.modelNotExported

\* RunInferencePipeline after the loop, and ServeHTTP's handling of its result
PipelineEnd ==
    /\ stack # <<>>
    /\ Top.pc = "pipeline"
    /\ Top.provIdx > Len(Top.providers)
    /\ stack' = SetTop(
         IF Top.displayErr # NilErr
         THEN [Top EXCEPT !.pc = "done", !.outcome = "error", !.w = HttpError(Top.w, 500)]
         ELSE IF ModelNotFound(Top)
         THEN [Top EXCEPT !.pc = "done", !.outcome = "notfound",
                          !.w = Write(WriteHeader([Top.w EXCEPT !.ctype = <<"application/json">>], 404),
                                      Frame("model_not_found", NoPayload))]
         ELSE [Top EXCEPT !.pc = "done", !.outcome = "empty"])
    /\ UNCHANGED <<cfg, nextTrace, driver, serve, store, hook, kvt, swarm>>

----------------------------------------------------------------------------
(* One streaming serve call in steps: the goroutine started by             *)
(* DoInferenceStream reads the upstream's events and sends items on an     *)
(* unbuffered channel; ServeStreaming receives them.  A send completes     *)
(* only together with a receive.                                           *)

He == <<"h", "e">>
Llo == <<"l", "l", "o">>
Deltas == {He, Llo}

\* a chunk program: its text delta; id is the position at which the driver
\* produced it (0 for a program that is not a chunk)
Program(id, text) == [id |-> id, text |-> text]
NewProgram == Program(0, <<>>)
NilProgram == Program(0 - 1, <<>>)

\* ail.Program.Append
ProgramAppend(a, c) == Program(0, a.text \o c.text)

\* the assembly of the chunk programs: NewProgram, then Append of each chunk in order
RECURSIVE Assemble(_)
Assemble(chunks) ==
    IF chunks = <<>> THEN NewProgram
    ELSE ProgramAppend(Assemble(SubSeq(chunks, 1, Len(chunks) - 1)), chunks[Len(chunks)])

\* texts of the chunks an upstream sends
RECURSIVE SeqsUpTo(_, _)
SeqsUpTo(S, n) ==
    IF n = 0 THEN {<<>>}
    ELSE SeqsUpTo(S, n - 1) \cup {Append(q, x) : q \in {r \in SeqsUpTo(S, n - 1) : Len(r) = n - 1}, x \in S}

NoItem == Data(NilProgram)

\* pc: "idle" before the goroutine exists, "read" while it reads the response,
\* "send" while it is blocked in a send of item, "closed" after it returned
\* and the deferred close(chunks) ran.  last: the goroutine returns after the
\* send.  rest, midErr: what the upstream has yet to deliver.  produced
\* records the chunk programs the goroutine has built
IdleDriver ==
    [pc |-> "idle", kind |-> "ok", rest |-> <<>>, midErr |-> FALSE,
     item |-> NoItem, last |-> FALSE, produced |-> <<>>]

\* pc: "off", "heartbeat", "start", "recv", "returned".  afterChunk, streamEnd,
\* sampled and errorRuns record the arguments of the plugin hooks and of the sampler
IdleServe ==
    [pc |-> "off", w |-> NewWriter(TRUE), quota |-> NoBreak, err |-> "nil", cancelled |-> FALSE,
     lastChunk |-> NilProgram, chunks |-> <<>>,
     afterChunk |-> <<>>, streamEnd |-> <<>>, sampled |-> <<>>, errorRuns |-> 0]

\* ServeStreaming: sseWriter.WriteHeartbeat("ok")
WriteHeartbeat ==
    /\ serve.pc = "heartbeat"
    /\ \E hb \in {sseWrite([serve.w EXCEPT !.ctype = <<"text/event-stream">>],
                             Frame("heartbeat", NoPayload), serve.quota)} :
         serve' = IF hb.ok THEN [serve EXCEPT !.pc = "start", !.w = hb.w, !.quota = hb.quota]
                  ELSE [serve EXCEPT !.pc = "returned", !.w = hb.w, !.quota = hb.quota, !.err = "write"]
    /\ UNCHANGED <<store, cfg, stack, nextTrace, driver, hook, kvt, swarm>>

\* ServeStreaming: cmd.DoInferenceStream.  http.DefaultClient.Do fails on a
\* transport failure and on a cancelled request context; otherwise the
\* goroutine is started and the channel returned
StartStream ==
    /\ serve.pc = "start"
    /\ IF driver.kind = "transport" \/ serve.cancelled
       THEN /\ serve' = [serve EXCEPT !.pc = "returned", !.err = "transport",
                                      !.errorRuns = @ + 1,
                                      !.w = StartFailed(serve.w, serve.quota)]
            /\ UNCHANGED driver
       ELSE /\ serve' = [serve EXCEPT !.pc = "recv"]
            /\ driver' = [driver EXCEPT !.pc = "read"]
    /\ UNCHANGED <<store, cfg, stack, nextTrace, hook, kvt, swarm>>

\* the goroutine is about to send item
Sending(d, item, last) == [d EXCEPT !.pc = "send", !.item = item, !.last = last]

\* the goroutine up to its next send or return: a non-200 status and a read or
\* parse error become a RuntimeError item followed by return; a data event
\* becomes a Data item; the end of the events is a return.  Reading the body
\* of a request whose context is cancelled can fail at any event
DriverRead ==
    /\ driver.pc = "read"
    /\ \/ /\ driver.kind = "non2xx" \/ serve.cancelled \/ (driver.rest = <<>> /\ driver.midErr)
          /\ driver' = Sending(driver, RuntimeError, TRUE)
       \/ /\ driver.kind = "ok" /\ driver.rest # <<>>
          /\ \E c \in {Program(Len(driver.produced) + 1, Head(driver.rest))} :
               driver' = [Sending(driver, Data(c), FALSE)
                             EXCEPT !.rest = Tail(@), !.produced = Append(@, c)]
       \/ /\ driver.kind = "ok" /\ driver.rest = <<>> /\ ~driver.midErr
          /\ driver' = [driver EXCEPT !.pc = "closed"]
    /\ UNCHANGED <<store, cfg, stack, nextTrace, serve, hook, kvt, swarm>>

\* the goroutine after its send completed
Sent(d) == [d EXCEPT !.pc = IF d.last THEN "closed" ELSE "read", !.item = NoItem]

\* chain.RunAfterChunk: the plugins pass the chunk on or return an error
AfterChunkResults == {"pass", "err"}

\* ServeStreaming's loop body for a Data item
OnData(s, chunk, ac) ==
    LET seen == [s EXCEPT !.afterChunk = Append(@, [chunk |-> chunk, ok |-> ac = "pass"])]
        kept == [seen EXCEPT !.lastChunk = chunk, !.chunks = Append(@, chunk)]
        d == sseWrite(s.w, Frame("data", chunk), s.quota)
    IN IF ac = "err" THEN seen
       ELSE IF ~d.ok THEN [kept EXCEPT !.pc = "returned", !.err = "write", !.w = d.w, !.quota = d.quota]
       ELSE [kept EXCEPT !.w = d.w, !.quota = d.quota]

\* ServeStreaming: one iteration of "for chunk := range stream", the receive
\* that completes the goroutine's send
ReceiveItem ==
    /\ serve.pc = "recv" /\ driver.pc = "send"
    /\ driver' = Sent(driver)
    /\ IF driver.item.RuntimeError
       THEN \E e \in {OnRuntimeError(serve.w, serve.quota, <<>>, FALSE)} :
               serve' = [serve EXCEPT !.pc = "returned", !.err = e.err, !.w = e.w,
                                      !.errorRuns = @ + e.errorRuns]
       ELSE \E ac \in AfterChunkResults :
               serve' = OnData(serve, driver.item.Data, ac)
    /\ UNCHANGED <<store, cfg, stack, nextTrace, hook, kvt, swarm>>

OnChannelClosedNoDone(s) ==
    [s EXCEPT !.pc = "returned", !.err = "nil",
              !.streamEnd = Append(@, s.lastChunk),
              !.sampled = Append(@, Assemble(s.chunks))]

\* ServeStreaming after the loop: RunStreamEnd with lastChunk, sample the
\* assembled program, WriteDone, return nil
OnChannelClosed(s) ==
    [s EXCEPT !.pc = "returned", !.err = "nil",
              !.streamEnd = Append(@, s.lastChunk),
              !.sampled = Append(@, Assemble(s.chunks)),
              !.w = sseWrite(s.w, Frame("done", NoPayload), s.quota).w]

\* ServeStreaming: the range loop ends when the channel is closed
ChannelClosed ==
    /\ serve.pc = "recv" /\ driver.pc = "closed"
    /\ serve' = OnChannelClosed(serve)
    /\ UNCHANGED <<store, cfg, stack, nextTrace, driver, hook, kvt, swarm>>

\* the request context is cancelled: the client went away, or the handler returned
CancelContext ==
    /\ serve.pc # "off" /\ ~serve.cancelled
    /\ serve' = [serve EXCEPT !.cancelled = TRUE]
    /\ UNCHANGED <<store, cfg, stack, nextTrace, driver, hook, kvt, swarm>>

StreamInit ==
    /\ cfg = <<>> /\ stack = <<>> /\ nextTrace = 1 /\ store = NoStore /\ hook = NoHook
    /\ kvt = NoKvt /\ swarm = NoSwarm
    /\ \E kind \in {"transport", "non2xx", "ok"}, rest \in SeqsUpTo(Deltas, MaxChunks), midErr \in BOOLEAN :
         /\ kind # "ok" => rest = <<>> /\ ~midErr
         /\ driver = [IdleDriver EXCEPT !.kind = kind, !.rest = rest, !.midErr = midErr]
    /\ \E quota \in 0..(MaxChunks + 1) \cup {NoBreak} :
         serve = [IdleServe EXCEPT !.pc = "heartbeat", !.quota = quota]

StreamNext ==
    \/ WriteHeartbeat
    \/ StartStream
    \/ DriverRead
    \/ ReceiveItem
    \/ ChannelClosed
    \/ CancelContext

\* both the goroutine and the handler are scheduled as long as they can run
StreamSpec ==
    /\ StreamInit /\ [][StreamNext]_vars
    /\ WF_vars(DriverRead)
    /\ WF_vars(WriteHeartbeat \/ StartStream \/ ReceiveItem \/ ChannelClosed)

----------------------------------------------------------------------------
(* kv.MemoryStore as a specification of its own *)

Set ==
    /\ \E key \in Keys, value \in Values, ttl \in TTLs :
         store' = MemSet(store, key, value, ttl)
    /\ UNCHANGED <<cfg, stack, nextTrace, driver, serve, hook, kvt, swarm>>

Get ==
    /\ \E key \in Keys :
         store' = [store EXCEPT !.got = [key |-> key, result |-> MemGet(store, key)],
                                !.lastSet = NoSet]
    /\ UNCHANGED <<cfg, stack, nextTrace, driver, serve, hook, kvt, swarm>>

Delete ==
    /\ \E key \in Keys : store' = MemDelete(store, key)
    /\ UNCHANGED <<cfg, stack, nextTrace, driver, serve, hook, kvt, swarm>>

\* time passes
Tick ==
    /\ store.now < MaxTime
    /\ store' = [store EXCEPT !.now = @ + 1, !.got = NoGet, !.lastSet = NoSet]
    /\ UNCHANGED <<cfg, stack, nextTrace, driver, serve, hook, kvt, swarm>>

KVInit ==
    /\ cfg = <<>> /\ stack = <<>> /\ nextTrace = 1 /\ hook = NoHook
    /\ driver = IdleDriver /\ serve = IdleServe /\ kvt = NoKvt /\ swarm = NoSwarm
    /\ \E maxItems \in 1..MaxItems, defaultTTL \in TTLs :
         store = NewMemoryStore(maxItems, defaultTTL)

KVNext == Set \/ Get \/ Delete \/ Tick

KVSpec == KVInit /\ [][KVNext]_vars

----------------------------------------------------------------------------
(* Message-history plugins on ail programs.  A program is its instruction  *)
(* list at message granularity: an item is one message span                *)
(* (MSG_START..MSG_END: role, text chunks, CALL blocks) or one instruction *)
(* outside the messages (SET_MODEL, a tool definition block).              *)

Item(kind, role, text, calls) == [kind |-> kind, role |-> role, text |-> text, calls |-> calls]

SetModelInstr == Item("instr", "SET_MODEL", "gpt-4", 0)
DefInstr == Item("instr", "DEF", "", 0)

\* the messages and instructions request programs are built from: text and
\* tool-calling assistant turns, with and without text, tool results
ProgItems ==
    {Item("msg", "user", "u", 0), Item("msg", "ast", "a", 0), Item("msg", "ast", "a", 1),
     Item("msg", "ast", "", 1), Item("msg", "tool", "r", 0), DefInstr}

Programs == {[code |-> <<SetModelInstr>> \o body] : body \in SeqsUpTo(ProgItems, MaxMsgs)}

\* Program.Messages: the positions of the message spans, in order
RECURSIVE MessagesFrom(_, _)
MessagesFrom(code, i) ==
    IF i > Len(code) THEN <<>>
    ELSE (IF code[i].kind = "msg" THEN <<i>> ELSE <<>>) \o MessagesFrom(code, i + 1)

Messages(prog) == MessagesFrom(prog.code, 1)

\* Program.MessageText
MessageText(prog, span) == prog.code[span].text

spanHasCalls(prog, span) == prog.code[span].calls > 0

toolInteraction(assistIdx, endIdx) == [assistIdx |-> assistIdx, endIdx |-> endIdx]

\* the inner loop of the grouping: the last of the ROLE_TOOL messages that
\* follow msgs[j] without a gap
RECURSIVE EndIdx(_, _, _)
EndIdx(prog, msgs, j) ==
    IF j + 1 <= Len(msgs) /\ prog.code[msgs[j + 1]].role = "tool"
    THEN EndIdx(prog, msgs, j + 1)
    ELSE j

\* StripTools.Before: group into tool interactions, from message i on
RECURSIVE Interactions(_, _, _)
Interactions(prog, msgs, i) ==
    IF i > Len(msgs) THEN <<>>
    ELSE IF prog.code[msgs[i]].role = "ast" /\ spanHasCalls(prog, msgs[i])
    THEN \* bound once: the scan resumes behind the interaction
         LET e == EndIdx(prog, msgs, i)
         IN <<toolInteraction(i, e)>> \o Interactions(prog, msgs, e + 1)
    ELSE Interactions(prog, msgs, i + 1)

OlderInteractionsAll(interactions) == interactions

\* interactions[:len(interactions)-1]
OlderInteractions(interactions) == SubSeq(interactions, 1, Len(interactions) - 1)

\* StripTools.Before: what to do with each message of the older interactions
msgAction(prog, msgs, older) ==
    [k \in 1..Len(msgs) |->
        IF \E n \in 1..Len(older) : older[n].assistIdx = k
        THEN IF MessageText(prog, msgs[k]) # "" THEN "textOnly" ELSE "drop"
        ELSE IF \E n \in 1..Len(older) : older[n].assistIdx < k /\ k <= older[n].endIdx
        THEN "drop"
        ELSE "none"]

\* the message re-emitted without its CALL_START..CALL_END blocks
TextOnly(m) == [m EXCEPT !.calls = 0]

\* StripTools.Before: the rebuild loop from instruction i on; k counts the
\* message spans passed
RECURSIVE Rebuild(_, _, _, _)
Rebuild(code, act, i, k) ==
    IF i > Len(code) THEN <<>>
    ELSE IF code[i].kind # "msg" THEN <<code[i]>> \o Rebuild(code, act, i + 1, k)
    ELSE (CASE act[k] = "none" -> <<code[i]>>
            [] act[k] = "textOnly" -> <<TextOnly(code[i])>>
            [] act[k] = "drop" -> <<>>) \o Rebuild(code, act, i + 1, k + 1)

\* StripTools.Before
StripToolsBefore(prog) ==
    LET msgs == Messages(prog)
        interactions == Interactions(prog, msgs, 1)
    IN IF Len(interactions) <= 1 THEN prog
       ELSE [prog EXCEPT !.code =
                Rebuild(prog.code, msgAction(prog, msgs, OlderInteractions(interactions)), 1, 1)]

\* strconv.Atoi of one part of the plugin parameters
Part(ok, v) == [ok |-> ok, v |-> v]

\* strings.SplitN(params, ":", 2) of the parameters a model suffix may carry:
\* none, "1", "2:0", "1:2", "0:1", "x:-1"
SlwinParams ==
    {<<>>, <<Part(TRUE, 1)>>, <<Part(TRUE, 2), Part(TRUE, 0)>>, <<Part(TRUE, 1), Part(TRUE, 2)>>,
     <<Part(TRUE, 0), Part(TRUE, 1)>>, <<Part(FALSE, 0), Part(TRUE, 0 - 1)>>}

defaultKeepEnd == 10
defaultKeepStart == 1

\* SlidingWindow.Before: keepEnd, keepStart from the parameters
Window(params) ==
    [keepEnd |-> IF Len(params) >= 1 /\ params[1].ok /\ params[1].v > 0
                 THEN params[1].v ELSE defaultKeepEnd,
     keepStart |-> IF Len(params) = 2 /\ params[2].ok /\ params[2].v >= 0
                   THEN params[2].v ELSE defaultKeepStart]

keepSetShort(total, keepStart, keepEnd) ==
    {i \in 0..(total - 1) : i < keepStart} \cup {i \in (total - keepEnd + 1)..(total - 1) : i >= 0}

\* SlidingWindow.Before: the 0-based message indices inside one of the windows
keepSet(total, keepStart, keepEnd) ==
    {i \in 0..(total - 1) : i < keepStart} \cup {i \in (total - keepEnd)..(total - 1) : i >= 0}

\* Program.RemoveMessages: the program without the listed message spans
RemoveMessages(prog, toRemove) ==
    [prog EXCEPT !.code = SelectSeq([i \in 1..Len(prog.code) |-> [at |-> i, item |-> prog.code[i]]],
                                    LAMBDA e : e.at \notin toRemove)]

Items(q) == [i \in 1..Len(q) |-> q[i].item]

\* SlidingWindow.Before
SlidingWindowBefore(params, prog) ==
    LET win == Window(params)
        msgs == Messages(prog)
        total == Len(msgs)
        keep == keepSet(total, win.keepStart, win.keepEnd)
    IN IF total <= win.keepStart + win.keepEnd THEN prog
       ELSE LET removed == RemoveMessages(prog, {msgs[i + 1] : i \in (0..(total - 1)) \ keep})
            IN [removed EXCEPT !.code = Items(@)]

\* one call of StripTools.Before by the chain
StripTools ==
    /\ hook.op = "request"
    /\ hook' = [op |-> "stools", prog |-> hook.prog, out |-> StripToolsBefore(hook.prog)]
    /\ UNCHANGED <<cfg, stack, nextTrace, driver, serve, store, kvt, swarm>>

\* one call of SlidingWindow.Before by the chain
SlidingWindow ==
    /\ hook.op = "request"
    /\ \E params \in SlwinParams :
         hook' = [op |-> "slwin", prog |-> hook.prog, params |-> params,
                  out |-> SlidingWindowBefore(params, hook.prog)]
    /\ UNCHANGED <<cfg, stack, nextTrace, driver, serve, store, kvt, swarm>>

G4T == <<"g", "4", "t">>

\* what list_models may return for a provider
Listings == {<<>>, <<G4>>, <<G4T>>, <<G4T, G4>>, <<OtherModel>>}

\* model names a request may carry: bare or with a provider prefix, a
\* partial or a full id, with or without a plugin suffix
FuzzModels ==
    {Mdl(prefix, base, suffix) : prefix \in {"", "pa", "PA", "pb", UnknownProvider},
                                 base \in {G4, G, OtherModel},
                                 suffix \in {<<>>, <<"fuzz">>}}

\* one call of Fuzz.RewriteModel by RunModelRewrite
FuzzRewrite ==
    /\ hook.op = "request"
    /\ \E listed \in [ProviderNames -> Listings], model \in FuzzModels :
         hook' = [op |-> "fuzz", listed |-> listed, model |-> model,
                  out |-> FuzzRewriteModel(listed, model)]
    /\ UNCHANGED <<cfg, stack, nextTrace, driver, serve, store, kvt, swarm>>

\* one serve call of the provider loop, on a chain that holds a plugin with
\* the side hooks OnError and StreamEnd
ServeCall ==
    /\ hook.op = "request"
    /\ \E up \in Upstreams(<<>>), quota \in {0, 1, 2, NoBreak}, streaming \in BOOLEAN, side \in BOOLEAN :
         hook' = [op |-> "serve", up |-> up, quota |-> quota, streaming |-> streaming, side |-> side,
                  out |-> Serve(up, NewWriter(TRUE), quota, streaming, <<"ef">>, 0, side)]
    /\ UNCHANGED <<cfg, stack, nextTrace, driver, serve, store, kvt, swarm>>

\* PluginChain.Add: one entry of the chain
PluginInstance(plugin, params) == [plugin |-> plugin, params |-> params]

\* the chains the list hooks are run on: plugins with and without the hook,
\* a failing one in front of, between and behind others
HookChains ==
    LET stools == PluginInstance("stools", <<>>)
        slwin == PluginInstance("slwin", <<Part(TRUE, 1), Part(TRUE, 1)>>)
        bf == PluginInstance("bf", <<>>)
        af == PluginInstance("af", <<>>)
        fuzz == PluginInstance("fuzz", <<>>)
    IN {<<>>, <<stools>>, <<fuzz, slwin>>, <<bf, stools>>, <<slwin, stools>>, <<stools, slwin>>,
        <<stools, bf, slwin>>, <<fuzz, slwin, af, bf, stools>>, <<af>>, <<af, af>>,
        <<af, fuzz, af, bf, af>>}

\* the program a failed hook returns
NilProg == [nil |-> TRUE]

\* the response program DoInference hands to RunAfter
Responses == {[code |-> <<SetModelInstr, Item("msg", "ast", "a", 0)>>]}

\* does the plugin implement the hook of the list (the type assertion of the walk)
Capable(kind, plugin) == IF kind = "before" THEN IsBeforePlugin(plugin) ELSE IsAfterPlugin(plugin)

\* indices of the chain whose hook can return an error
Failing(kind, chain) ==
    {i \in 1..Len(chain) : chain[i].plugin = (IF kind = "before" THEN "bf" ELSE "af")}

\* what the hook of instance pi returns for current when it does not fail.
\* The After hook of "af" tags the response with the length it received
CallHook(kind, pi, current) ==
    IF kind = "before"
    THEN CASE pi.plugin = "stools" -> StripToolsBefore(current)
           [] pi.plugin = "slwin" -> SlidingWindowBefore(pi.params, current)
           [] OTHER -> current
    ELSE [current EXCEPT !.code = Append(@, Item("instr", "TAG", "af", Len(current.code)))]

Call(at, arg) == [at |-> at, arg |-> arg]

FeedSame(current, next) == current

\* current = next
Feed(current, next) == next

\* PluginChain.RunBefore and PluginChain.RunAfter: the walk from plugin i on
\* (failAt: the plugin whose hook returns an error, 0 for none).  calls
\* records each hook called and the program it was passed
RECURSIVE RunList(_, _, _, _, _, _)
RunList(kind, chain, failAt, i, current, calls) ==
    IF i > Len(chain) THEN [prog |-> current, err |-> "nil", calls |-> calls]
    ELSE IF ~Capable(kind, chain[i].plugin) THEN RunList(kind, chain, failAt, i + 1, current, calls)
    ELSE IF i = failAt THEN [prog |-> NilProg, err |-> "plugin", calls |-> Append(calls, Call(i, current))]
    ELSE RunList(kind, chain, failAt, i + 1, Feed(current, CallHook(kind, chain[i], current)),
                 Append(calls, Call(i, current)))

\* one call of PluginChain.RunBefore by the provider loop
RunBeforeChain ==
    /\ hook.op = "request"
    /\ \E chain \in HookChains : \E failAt \in {0} \cup Failing("before", chain) :
         hook' = [op |-> "run", kind |-> "before", chain |-> chain, failAt |-> failAt,
                  arg |-> hook.prog, out |-> RunList("before", chain, failAt, 1, hook.prog, <<>>)]
    /\ UNCHANGED <<cfg, stack, nextTrace, driver, serve, store, kvt, swarm>>

\* one call of PluginChain.RunAfter by ServeNonStreaming
RunAfterChain ==
    /\ hook.op = "request"
    /\ \E chain \in HookChains, resProg \in Responses : \E failAt \in {0} \cup Failing("after", chain) :
         hook' = [op |-> "run", kind |-> "after", chain |-> chain, failAt |-> failAt,
                  arg |-> resProg, out |-> RunList("after", chain, failAt, 1, resProg, <<>>)]
    /\ UNCHANGED <<cfg, stack, nextTrace, driver, serve, store, kvt, swarm>>

\* the chains the side hooks are run on
SideChains ==
    LET ef == PluginInstance("ef", <<>>)
        bf == PluginInstance("bf", <<>>)
        af == PluginInstance("af", <<>>)
    IN {<<>>, <<bf>>, <<ef>>, <<ef, ef>>, <<bf, ef, af, ef>>, <<ef, af, ef, ef>>}

\* the type assertion of the side walks: pi.Plugin.(StreamEndPlugin),
\* pi.Plugin.(ErrorPlugin)
SideCapable(kind, plugin) ==
    IF kind = "streamEnd" THEN IsStreamEndPlugin(plugin) ELSE IsErrorPlugin(plugin)

SideCapableAt(kind, chain) == {i \in 1..Len(chain) : SideCapable(kind, chain[i].plugin)}

\* PluginChain.RunStreamEnd and PluginChain.RunError: the walk from plugin i
\* on (fails: the plugins whose hook returns an error).  RunStreamEnd returns
\* the first error, RunError logs each and goes on.  calls lists the hooks called
RECURSIVE RunSideList(_, _, _, _, _)
RunSideList(kind, chain, fails, i, calls) ==
    IF i > Len(chain) THEN [err |-> "nil", calls |-> calls]
    ELSE IF ~SideCapable(kind, chain[i].plugin) THEN RunSideList(kind, chain, fails, i + 1, calls)
    ELSE IF i \in fails /\ kind = "streamEnd" THEN [err |-> "plugin", calls |-> Append(calls, i)]
    ELSE RunSideList(kind, chain, fails, i + 1, Append(calls, i))

\* one call of PluginChain.RunStreamEnd by ServeStreaming at the end of a
\* stream that carried no RuntimeError
RunStreamEndChain ==
    /\ hook.op = "request"
    /\ \E chain \in SideChains : \E fails \in SUBSET SideCapableAt("streamEnd", chain) :
         hook' = [op |-> "side", kind |-> "streamEnd", chain |-> chain, fails |-> fails,
                  out |-> RunSideList("streamEnd", chain, fails, 1, <<>>)]
    /\ UNCHANGED <<cfg, stack, nextTrace, driver, serve, store, kvt, swarm>>

\* one call of PluginChain.RunError after a failed inference
RunErrorChain ==
    /\ hook.op = "request"
    /\ \E chain \in SideChains : \E fails \in SUBSET SideCapableAt("error", chain) :
         hook' = [op |-> "side", kind |-> "error", chain |-> chain, fails |-> fails,
                  out |-> RunSideList("error", chain, fails, 1, <<>>)]
    /\ UNCHANGED <<cfg, stack, nextTrace, driver, serve, store, kvt, swarm>>

\* the model name ResolveProvidersOrderAndModel hands to the provider loop
ResolvedModel == "g4"

\* Program.SetModel: the program's SET_MODEL instruction names the model
ProgSetModel(prog, model) ==
    [prog EXCEPT !.code = [i \in DOMAIN @ |->
        IF @[i].role = "SET_MODEL" THEN [@[i] EXCEPT !.text = model] ELSE @[i]]]

CloneAlias(heap, ref) == [heap |-> heap, ref |-> ref]

\* Program.Clone: a new program object with the receiver's content
\* (heap: the program objects, a *ail.Program is an index into it)
Clone(heap, ref) == [heap |-> Append(heap, heap[ref]), ref |-> Len(heap) + 1]

\* chain.RunBefore on program objects, from plugin i on.  StripTools builds
\* its result in a new program; SlidingWindow returns what RemoveMessages
\* returns, a new program or (inplace) its receiver changed; the other
\* plugins return the program they were passed
RECURSIVE BeforeOnHeap(_, _, _, _, _, _)
BeforeOnHeap(chain, failAt, inplace, i, heap, ref) ==
    IF i > Len(chain) THEN [heap |-> heap, ref |-> ref, err |-> "nil"]
    ELSE IF ~IsBeforePlugin(chain[i].plugin) THEN BeforeOnHeap(chain, failAt, inplace, i + 1, heap, ref)
    ELSE IF i = failAt THEN [heap |-> heap, ref |-> 0, err |-> "plugin"]
    ELSE LET next == CallHook("before", chain[i], heap[ref])
         IN IF chain[i].plugin = "stools" \/ (chain[i].plugin = "slwin" /\ ~inplace)
            THEN BeforeOnHeap(chain, failAt, inplace, i + 1, Append(heap, next), Len(heap) + 1)
            ELSE IF chain[i].plugin = "slwin"
            THEN BeforeOnHeap(chain, failAt, inplace, i + 1, [heap EXCEPT ![ref] = next], ref)
            ELSE BeforeOnHeap(chain, failAt, inplace, i + 1, heap, ref)

\* RunInferencePipeline, one iteration up to the serve call: clone the
\* caller's program, set the resolved model, run the Before hooks.
\* given: the program RunBefore was handed, as it was at the call
ProviderProg(heap, progRef, chain, failAt, inplace) ==
    LET c == Clone(heap, progRef)
        h == [c.heap EXCEPT ![c.ref] = ProgSetModel(@, ResolvedModel)]
        b == BeforeOnHeap(chain, failAt, inplace, 1, h, c.ref)
    IN [heap |-> b.heap, cloneRef |-> c.ref, given |-> h[c.ref], err |-> b.err,
        sentRef |-> b.ref]

\* the chains of the provider loop's attempts
LoopChains ==
    LET stools == PluginInstance("stools", <<>>)
        slwin == PluginInstance("slwin", <<Part(TRUE, 1), Part(TRUE, 1)>>)
        bf == PluginInstance("bf", <<>>)
    IN {<<slwin, stools, bf>>}

\* RunInferencePipeline over two candidates: the second is tried when the
\* first attempt failed in RunBefore or in its serve call
ProviderLoop ==
    /\ hook.op = "request"
    /\ \E chain \in LoopChains, inplace \in BOOLEAN, serveFails \in BOOLEAN :
       \E failA \in {0} \cup Failing("before", chain), failB \in {0} \cup Failing("before", chain) :
         /\ failA # 0 => ~serveFails
         /\ (failA = 0 /\ ~serveFails) => failB = 0
         /\ \E a \in {ProviderProg(<<hook.prog>>, 1, chain, failA, inplace)} :
            \E b \in {ProviderProg(a.heap, 1, chain, failB, inplace)} :
              hook' = [op |-> "loop", prog |-> hook.prog, chain |-> chain, inplace |-> inplace,
                       out |-> IF failA = 0 /\ ~serveFails
                               THEN [heap |-> a.heap, attempts |-> <<a>>]
                               ELSE [heap |-> b.heap, attempts |-> <<a, b>>]]
    /\ UNCHANGED <<cfg, stack, nextTrace, driver, serve, store, kvt, swarm>>

\* the pieces a params string is made of: a kind name, the separator, a
\* plain piece, an escaped blank and a malformed escape
ParamTokens == {"react", ":", "q", "%20", "%zz"}

ParamStrings == SeqsUpTo(ParamTokens, MaxParams)

defaultKind == <<"cot">>

defaultSignature == <<"history, question -> answer">>

\* strings.SplitN(params, ":", 2): the string itself when it holds no
\* separator, else what is before and what is behind the first one
SplitN2(params) ==
    LET seps == {i \in 1..Len(params) : params[i] = ":"}
    IN IF seps = {} THEN <<params>>
       ELSE LET i == CHOOSE k \in seps : \A j \in seps : k <= j
            IN <<SubSeq(params, 1, i - 1), SubSeq(params, i + 1, Len(params))>>

\* url.QueryUnescape: an error on a malformed escape, else the string with
\* every escape decoded
QueryUnescape(str) ==
    IF \E i \in 1..Len(str) : str[i] = "%zz" THEN [ok |-> FALSE, v |-> <<>>]
    ELSE [ok |-> TRUE, v |-> [i \in 1..Len(str) |-> IF str[i] = "%20" THEN " " ELSE str[i]]]

\* dspy.parseParams
parseParams(params) ==
    IF params = <<>> THEN [kind |-> defaultKind, signature |-> defaultSignature]
    ELSE LET parts == SplitN2(params)
             kind == IF parts[1] # <<>> THEN parts[1] ELSE defaultKind
             sig == IF Len(parts) > 1 /\ parts[2] # <<>>
                    THEN LET u == QueryUnescape(parts[2])
                         IN IF u.ok THEN u.v ELSE parts[2]
                    ELSE defaultSignature
         IN [kind |-> kind, signature |-> sig]

\* one call of parseParams by DSPy.RecursiveHandler, on the params of the
\* plugin instance
ParseParams ==
    /\ hook.op = "params"
    /\ hook' = [op |-> "parseParams", params |-> hook.params, out |-> parseParams(hook.params)]
    /\ UNCHANGED <<cfg, stack, nextTrace, driver, serve, store, kvt, swarm>>

HookInit ==
    /\ cfg = <<>> /\ stack = <<>> /\ nextTrace = 1
    /\ driver = IdleDriver /\ serve = IdleServe /\ store = NoStore
    /\ kvt = NoKvt /\ swarm = NoSwarm
    /\ \/ \E prog \in Programs : hook = [op |-> "request", prog |-> prog]
       \/ \E params \in ParamStrings : hook = [op |-> "params", params |-> params]

HookNext ==
    \/ StripTools \/ SlidingWindow \/ FuzzRewrite \/ ServeCall \/ RunBeforeChain \/ RunAfterChain
    \/ ParseParams \/ RunStreamEndChain \/ RunErrorChain \/ ProviderLoop

HookSpec == HookInit /\ [][HookNext]_vars

-----------------------------------------------------------------------------
(* KvTools.ensureStore under concurrent requests.  The plugin instance is  *)
(* shared by the requests; every goroutine makes one Before call           *)
(* (cacheAndStrip: ensureStore, then Set of its tool result) and then one  *)
(* lookup (HandleToolCall: ensureStore, then Get of that result).  The     *)
(* field k.store is read and written without a lock; the steps below are   *)
(* its reads and writes.  A store instance is a number (0: nil); the       *)
(* content of instance s is stores[s], the set of keys it holds.           *)

Callers == 1..MaxCallers

NilStore == 0

\* pc: "idle", "test" (at `if k.store != nil`), "open" (at kv.Open),
\* "assign" (at `k.store = s`), "return" (at the final `return k.store`),
\* "got" (ensureStore has returned ret), "end".  call: the hook call the
\* goroutine is in.  s: the local of ensureStore
NewCaller == [pc |-> "idle", call |-> "before", s |-> NilStore, ret |-> NilStore, found |-> FALSE]

\* a goroutine enters ensureStore from cacheAndStrip or from HandleToolCall
EnsureCall(c) ==
    /\ kvt.procs[c].pc = "idle"
    /\ kvt' = [kvt EXCEPT !.procs[c].pc = "test"]

\* if k.store != nil { return k.store }
EnsureTest(c) ==
    /\ kvt.procs[c].pc = "test"
    /\ kvt' = IF kvt.field # NilStore
              THEN [kvt EXCEPT !.procs[c].pc = "got", !.procs[c].ret = kvt.field,
                               !.returned = @ \cup {kvt.field}]
              ELSE [kvt EXCEPT !.procs[c].pc = "open"]

\* s, err := kv.Open(backend, dsn): the factory builds a new store
EnsureOpen(c) ==
    /\ kvt.procs[c].pc = "open"
    /\ kvt' = [kvt EXCEPT !.procs[c].pc = "assign", !.procs[c].s = Len(kvt.stores) + 1,
                          !.stores = Append(@, {})]

\* k.store = s
EnsureAssign(c) ==
    /\ kvt.procs[c].pc = "assign"
    /\ kvt' = [kvt EXCEPT !.procs[c].pc = "return", !.field = kvt.procs[c].s]

\* return k.store
EnsureReturn(c) ==
    /\ kvt.procs[c].pc = "return"
    /\ kvt' = [kvt EXCEPT !.procs[c].pc = "got", !.procs[c].ret = kvt.field,
                          !.returned = @ \cup {kvt.field}]

\* cacheAndStrip: store.Set of the goroutine's tool result; the Before call
\* returns and the goroutine goes on to its lookup
CacheSet(c) ==
    /\ kvt.procs[c].pc = "got" /\ kvt.procs[c].call = "before"
    /\ kvt' = [kvt EXCEPT !.stores[kvt.procs[c].ret] = @ \cup {c},
                          !.cached = @ \cup {c},
                          !.procs[c].pc = "idle", !.procs[c].call = "lookup"]

\* HandleToolCall: store.Get of the result the goroutine has cached
Lookup(c) ==
    /\ kvt.procs[c].pc = "got" /\ kvt.procs[c].call = "lookup"
    /\ kvt' = [kvt EXCEPT !.procs[c].pc = "end",
                          !.procs[c].found = c \in kvt.stores[kvt.procs[c].ret]]

EnsureStep(c) ==
    \/ EnsureCall(c) \/ EnsureTest(c) \/ EnsureOpen(c) \/ EnsureAssign(c) \/ EnsureReturn(c)
    \/ CacheSet(c) \/ Lookup(c)

EnsureInit ==
    /\ cfg = <<>> /\ stack = <<>> /\ nextTrace = 1 /\ hook = NoHook /\ store = NoStore
    /\ driver = IdleDriver /\ serve = IdleServe /\ swarm = NoSwarm
    /\ kvt = [op |-> "ensure", field |-> NilStore, stores |-> <<>>, returned |-> {},
              cached |-> {}, procs |-> [c \in Callers |-> NewCaller]]

EnsureNext ==
    /\ \E c \in Callers : EnsureStep(c)
    /\ UNCHANGED <<cfg, stack, nextTrace, driver, serve, store, hook, swarm>>

EnsureSpec == EnsureInit /\ [][EnsureNext]_vars

-----------------------------------------------------------------------------
(* Swarm.executeWorkersInParallel: the calling goroutine spawns one worker *)
(* per task, starts the goroutine that closes the channel, and collects;   *)
(* every worker runs executeWorker, sends its result on the buffered       *)
(* channel and calls wg.Done.                                              *)

Tasks(n) == 1..n

chanCapOne(n) == 1

\* resultsChan := make(chan result, len(tasks))
chanCap(n) == n

\* SwarmResult built by the collection loop from a received result
SwarmResult(res) == [TaskID |-> res.taskID, Complete |-> ~res.err]

\* wg.Add(1); go func(t SwarmTask) {...}(task), for the next task of the loop
SpawnWorker ==
    /\ swarm.main = "spawn" /\ swarm.next <= swarm.n
    /\ swarm' = [swarm EXCEPT !.wg = @ + 1, !.w[swarm.next] = "run", !.next = @ + 1]

\* go func() { wg.Wait(); close(resultsChan) }(), behind the spawn loop
StartCloser ==
    /\ swarm.main = "spawn" /\ swarm.next > swarm.n
    /\ swarm' = [swarm EXCEPT !.main = "collect", !.closer = "wait"]

\* output, err := s.executeWorker(...)
ExecuteWorker(t) ==
    /\ swarm.w[t] = "run"
    /\ \E err \in BOOLEAN :
         swarm' = [swarm EXCEPT !.w[t] = "send", !.err[t] = err]

\* resultsChan <- result{...}: possible while the buffer has room
SendResult(t) ==
    /\ swarm.w[t] = "send"
    /\ Len(swarm.chan) < chanCap(swarm.n)
    /\ swarm' = [swarm EXCEPT !.w[t] = "sent",
                              !.chan = Append(@, [taskID |-> t, err |-> swarm.err[t]])]

\* defer wg.Done()
WorkerDone(t) ==
    /\ swarm.w[t] = "sent"
    /\ swarm' = [swarm EXCEPT !.w[t] = "done", !.wg = @ - 1]

\* wg.Wait() returns at counter 0; close(resultsChan)
CloseChan ==
    /\ swarm.closer = "wait" /\ swarm.wg = 0
    /\ swarm' = [swarm EXCEPT !.closer = "done", !.closed = TRUE]

\* for res := range resultsChan: one iteration
Collect ==
    /\ swarm.main = "collect" /\ swarm.chan # <<>>
    /\ swarm' = [swarm EXCEPT !.chan = Tail(@),
                              !.results = Append(@, SwarmResult(Head(swarm.chan)))]

\* the range loop ends on the closed, drained channel; return results
ReturnResults ==
    /\ swarm.main = "collect" /\ swarm.chan = <<>> /\ swarm.closed
    /\ swarm' = [swarm EXCEPT !.main = "returned"]

Worker(t) == ExecuteWorker(t) \/ SendResult(t) \/ WorkerDone(t)

SwarmInit ==
    /\ cfg = <<>> /\ stack = <<>> /\ nextTrace = 1 /\ hook = NoHook /\ store = NoStore
    /\ driver = IdleDriver /\ serve = IdleServe /\ kvt = NoKvt
    /\ \E n \in 0..MaxTasks :
         swarm = [op |-> "swarm", n |-> n, main |-> "spawn", next |-> 1, wg |-> 0,
                  w |-> [t \in Tasks(n) |-> "off"], err |-> [t \in Tasks(n) |-> FALSE],
                  chan |-> <<>>, closed |-> FALSE, closer |-> "off", results |-> <<>>]

SwarmNext ==
    /\ \/ SpawnWorker \/ StartCloser \/ CloseChan \/ Collect \/ ReturnResults
       \/ \E t \in Tasks(swarm.n) : Worker(t)
    /\ UNCHANGED <<cfg, stack, nextTrace, driver, serve, store, hook, kvt>>

\* every goroutine that can take a step is scheduled in the end
SwarmSpec ==
    /\ SwarmInit /\ [][SwarmNext]_vars
    /\ WF_vars(SwarmNext /\ (SpawnWorker \/ StartCloser \/ Collect \/ ReturnResults))
    /\ WF_vars(SwarmNext /\ CloseChan)
    /\ \A t \in 1..MaxTasks : WF_vars(SwarmNext /\ t \in Tasks(swarm.n) /\ Worker(t))

----------------------------------------------------------------------------
(* Configurations and requests *)

Names == ProviderNames \cup {UnknownProvider}

Orders == UNION {[1..n -> Names] : n \in 0..MaxProviders}

\* what a virtual provider may map its alias to
Targets == {Mdl("pa", G4, <<>>), Mdl("va", AL, <<>>), Mdl("vb", AL, <<>>),
            Mdl("pa", G, <<"fuzz">>), Mdl("", G4, <<"t1">>), Mdl("va", AL, <<"bf">>),
            EmptyModel}

Mapping(t) == [b \in {AL} |-> t]

\* provider tables and orders, with plain virtual mappings
PipelineConfigs ==
    [order : Orders, kind : [ProviderNames -> ProviderKinds],
     ModelMappings : {[v \in VirtualProviders |-> Mapping(Mdl("pa", G4, <<>>))]},
     virtualChain : {<<"virtual:va", "virtual:vb">>}]

\* virtual mappings, with providers that export nothing of what is asked
RewriteConfigs ==
    [order : {<<"pa", "pb">>}, kind : {[p \in ProviderNames |-> IF p = "pa" THEN "private" ELSE "other"]},
     ModelMappings : [VirtualProviders -> {Mapping(t) : t \in Targets}],
     virtualChain : {<<"virtual:va", "virtual:vb">>}]

PipelineModels == {Mdl("", G4, <<>>), Mdl("", G4, <<"bf">>), Mdl("pa", G4, <<"t1">>),
                   Mdl("", G4, <<"t2", "bf", "t1">>), Mdl("", G4, <<"dspy", "t1">>),
                   Mdl("", G4, <<"t1", "dspy">>), Mdl("", G4, <<"kv">>),
                   Mdl("", G4, <<"af", "ef">>)}

\* the completed tool interactions of the client's conversation: two for a
\* request that asks for KvTools
RequestTools(m) ==
    IF m.suffix = <<"kv">> THEN <<Interaction(1, "d1"), Interaction(2, "d2")>> ELSE <<>>

RewriteModels == {Mdl("va", AL, <<>>), Mdl("VA", AL, <<"t1">>), Mdl("vb", AL, <<"fuzz">>),
                  Mdl("PA", G, <<"fuzz", "t1">>)}

Init ==
    /\ \/ cfg \in PipelineConfigs /\ cfg.order # <<>>
       \/ cfg \in RewriteConfigs
    /\ nextTrace = 1
    /\ driver = IdleDriver /\ serve = IdleServe /\ store = NoStore /\ hook = NoHook
    /\ kvt = NoKvt /\ swarm = NoSwarm
    /\ \E m \in PipelineModels \cup RewriteModels, streaming \in BOOLEAN :
        /\ m \in PipelineModels <=> cfg \in PipelineConfigs
        /\ stack = <<NewActivation(NewWriter(TRUE), NewCtx,
                                   [model |-> m, streaming |-> streaming, tools |-> RequestTools(m)])>>

Next ==
    \/ ServeHTTPStart
    \/ RecursiveHandlerGuarded
    \/ RecursiveHandlerInvoke
    \/ ToolPluginResume
    \/ DSPyRecursiveHandler
    \/ RecursiveHandlersNone
    \/ TryProvider
    \/ PipelineEnd

Spec == Init /\ [][Next]_vars

----------------------------------------------------------------------------
(* Properties *)

Activations == 1..Len(stack)

\* the provider loop of activation f has returned
PipelineReturned(f) == f.pc = "done" /\ f.outcome \in {"served", "error", "notfound", "empty"}

Skipped == {"unknown", "notexported", "noinference"}

Min(S) == CHOOSE x \in S : \A y \in S : x <= y

HasFrame(w, t) == \E i \in 1..Len(w.body) : w.body[i].t = t

\* C1: when RunBefore fails for candidate A, A's inference command is not
\* called, the next candidate B of the resolved order is attempted, and if B
\* succeeds the pipeline returns success with X-Real-Provider-Id naming B.
C1_BeforeFailover ==
    \A k \in Activations :
        LET f == stack[k]
        IN \A i \in 1..Len(f.attempts) :
            f.attempts[i].outcome = "before" =>
                /\ ~f.attempts[i].cmdCalled
                /\ f.attempts[i].name = f.providers[i]
                /\ (f.pc = "done" /\ i < Len(f.providers)) => Len(f.attempts) > i
                /\ (i < Len(f.attempts) /\ f.attempts[i + 1].outcome = "ok") =>
                        /\ f.outcome = "served"
                        /\ f.attempts[i + 1].name = f.providers[i + 1]
                        /\ f.w.prov = <<f.providers[i + 1]>>

C1_Witness ==
    \E k \in Activations :
        LET f == stack[k]
        IN /\ Len(f.attempts) = 2
           /\ f.attempts[1].outcome = "before"
           /\ f.attempts[2].outcome = "ok"
           /\ f.attempts[2].cmdCalled
           /\ f.providers[1] # f.providers[2]
           /\ f.outcome = "served"
           /\ f.w.prov = <<f.providers[2]>>

\* C2: for every request, streaming or not, a candidate whose upstream answers
\* with a non-2xx status is a failed attempt, and the pipeline moves on to the
\* next candidate of the resolved order.
C2_Non2xxRetried ==
    \A k \in Activations :
        LET f == stack[k]
        IN \A i \in 1..Len(f.attempts) :
            f.attempts[i].up = "non2xx" =>
                /\ f.attempts[i].outcome # "ok"
                /\ (f.pc = "done" /\ i < Len(f.providers)) => Len(f.attempts) > i

\* C3: when no candidate succeeds and at least one attempt recorded an error,
\* the pipeline returns the error of the earliest failing attempt in provider
\* order and writes no model_not_found body.
C3_FirstErrorSurfaced ==
    \A k \in Activations :
        LET f == stack[k]
            failing == {i \in 1..Len(f.attempts) : f.attempts[i].outcome \notin Skipped \cup {"ok"}}
        IN (PipelineReturned(f) /\ f.outcome # "served" /\ failing # {}) =>
                /\ f.outcome = "error"
                /\ f.displayErr = Err(Min(failing), f.attempts[Min(failing)].outcome)
                /\ ~HasFrame(f.w, "model_not_found")

C3_Witness ==
    \E k \in Activations :
        LET f == stack[k]
        IN /\ PipelineReturned(f)
           /\ Len(f.attempts) = 2
           /\ f.attempts[1].outcome = "before"
           /\ f.attempts[2].outcome = "non2xx"
           /\ f.outcome = "error"
           /\ f.displayErr = Err(1, "before")

\* C4: the 404 model_not_found JSON is written only if every candidate of the
\* resolved list was skipped by the exports filter and no error was recorded;
\* a candidate skipped for another reason rules the 404 out.
C4_NotFoundOnlyIfAllFiltered ==
    \A k \in Activations :
        LET f == stack[k]
        IN HasFrame(f.w, "model_not_found") =>
                /\ f.displayErr = NilErr
                /\ \A i \in 1..Len(f.attempts) : f.attempts[i].outcome = "notexported"

\* the provider does not export the model: private, or a non-empty export
\* list without the model
NotExported(name, model) ==
    /\ name \in ProviderNames
    /\ \/ cfg.kind[name] = "private"
       \/ cfg.kind[name] = "other" /\ model # OtherModel

\* C5: without the exports-bypass flag in the request context, a provider that
\* does not export the model has no Before plugin run for it, its inference
\* command is not called, and X-Real-Provider-Id never names it.
C5_UnexportedNeverServed ==
    \A k \in Activations :
        LET f == stack[k]
            model == ResolveProvidersOrderAndModel(cfg, f.prog.model).model
        IN (f.pc # "start" /\ ~f.ctx.bypass) =>
                /\ \A i \in 1..Len(f.attempts) :
                        NotExported(f.attempts[i].name, f.model) =>
                            /\ f.attempts[i].before = <<>>
                            /\ ~f.attempts[i].cmdCalled
                            /\ f.attempts[i].outcome = "notexported"
                /\ \A j \in 1..Len(f.w.prov) : ~NotExported(f.w.prov[j], model)

C5_Witness ==
    \E k \in Activations :
        LET f == stack[k]
        IN /\ ~f.ctx.bypass
           /\ Len(f.attempts) = 2
           /\ NotExported(f.attempts[1].name, f.model)
           /\ f.attempts[1].outcome = "notexported"
           /\ f.attempts[2].outcome = "ok"
           /\ f.w.prov = <<f.attempts[2].name>>
           /\ f.attempts[2].before # <<>>

\* C6: once a plugin named "virtual:..." has rewritten the model in
\* RequestPreamble, no candidate is rejected on exports grounds for the rest
\* of the request: in that activation and in every activation re-entered from
\* it through InvokeHandler, whichever plugin rewrites later.
C6_VirtualBypassSticky ==
    \A k \in Activations : \A j \in Activations :
        (k <= j /\ stack[k].virtualResolved) =>
            /\ stack[j].ctx.bypass
            /\ \A i \in 1..Len(stack[j].attempts) : stack[j].attempts[i].outcome # "notexported"

C6_Witness ==
    /\ Len(stack) = 2
    /\ stack[1].virtualResolved
    /\ ~stack[2].virtualResolved
    /\ stack[2].outcome = "served"
    /\ Len(stack[2].attempts) = 1
    /\ NotExported(stack[2].attempts[1].name, stack[2].model)

\* C7: the alias-resolution loop of RequestPreamble resolves at most 10
\* chains, cyclic virtual mappings included, and stops at the first round
\* that leaves the model unchanged.
C7_RewriteLoopBounded ==
    \A k \in Activations :
        LET f == stack[k]
        IN /\ f.resolutions <= maxRewriteDepth
           /\ f.rewrites <= f.resolutions
           /\ f.pc = "rh" =>
                IF f.rewrites < maxRewriteDepth
                THEN /\ f.resolutions = f.rewrites + 1
                     /\ RunModelRewrite(cfg, TryResolvePlugins(cfg, f.prog.model), f.prog.model).model
                            = f.prog.model
                ELSE f.resolutions = maxRewriteDepth

C7_Witness ==
    \E k \in Activations :
        /\ stack[k].pc = "rh"
        /\ stack[k].rewrites = maxRewriteDepth
        /\ stack[k].resolutions = maxRewriteDepth
        /\ stack[k].virtualResolved

RHIndices(chain) == {i \in 1..Len(chain) : chain[i] \in ToolPlugins \cup {"dspy"}}

\* C8: RunRecursiveHandlers calls the RecursiveHandler plugins in chain
\* order and stops at the first handled=true: no later handler is called, that
\* plugin's error is the one returned, and the endpoint runs no provider
\* iteration; the pipeline starts only after every handler declined.
C8_RecursiveHandlersShortCircuit ==
    \A k \in Activations :
        LET f == stack[k]
            n == Len(f.rhLog)
        IN /\ \A m \in 1..n :
                /\ f.rhLog[m].plugin \in RHIndices(f.chain)
                /\ Cardinality({i \in RHIndices(f.chain) : i < f.rhLog[m].plugin}) = m - 1
                /\ m < n => ~f.rhLog[m].handled
           /\ (n > 0 /\ f.rhLog[n].handled) =>
                /\ f.pc = "done" /\ f.outcome = "handled"
                /\ f.rhErr = f.rhLog[n].err
                /\ f.attempts = <<>> /\ f.providers = <<>>
           /\ (f.pc = "pipeline" \/ PipelineReturned(f)) =>
                /\ n = Cardinality(RHIndices(f.chain))
                /\ \A m \in 1..n : ~f.rhLog[m].handled

C8_Witness ==
    \E k \in Activations :
        LET f == stack[k]
        IN /\ Cardinality(RHIndices(f.chain)) = 2
           /\ Len(f.rhLog) = 1
           /\ f.rhLog[1].handled
           /\ f.rhLog[1].err # "nil"
           /\ f.outcome = "handled"
           /\ f.w.status = 500

\* C9: while a ToolPlugin re-enters the pipeline through InvokeHandler, the
\* same plugin's RecursiveHandler in the inner activation sees the guard and
\* returns handled=false without another invocation, and the recursion never
\* nests deeper than one level.
C9_SamePluginGuarded ==
    /\ Len(stack) <= 2
    /\ \A k \in 2..Len(stack) :
        LET outer == stack[k - 1]
            inner == stack[k]
            tp == outer.chain[outer.rhIdx]
        IN /\ outer.pc = "wait"
           /\ tp \in ToolPlugins
           /\ \A m \in 1..Len(inner.rhLog) :
                inner.chain[inner.rhLog[m].plugin] = tp =>
                    inner.rhLog[m].guarded /\ ~inner.rhLog[m].handled
           /\ ~(inner.pc = "wait" /\ inner.chain[inner.rhIdx] = tp)
           /\ inner.outcome = "handled" => inner.chain[inner.handledBy] # tp

C9_Witness ==
    /\ Len(stack) = 2
    /\ stack[1].pc = "wait"
    /\ stack[1].round = 1
    /\ \E m \in 1..Len(stack[2].rhLog) :
        /\ stack[2].chain[stack[2].rhLog[m].plugin] = stack[1].chain[stack[1].rhIdx]
        /\ stack[2].rhLog[m].guarded
    /\ stack[2].outcome = "served"

\* C10: re-entry guards are per plugin: the guard a ToolPlugin A installs
\* before its inner invocation does not make the RecursiveHandler of another
\* ToolPlugin B of the chain return handled=false in the inner pipeline.
C10_GuardPerPlugin ==
    \A k \in 2..Len(stack) :
        LET outer == stack[k - 1]
            inner == stack[k]
            tp == outer.chain[outer.rhIdx]
        IN \A m \in 1..Len(inner.rhLog) :
            LET other == inner.chain[inner.rhLog[m].plugin]
            IN (other \in ToolPlugins /\ other # tp) => ~inner.rhLog[m].guarded

\* the activation runs, or has returned from, the RecursiveHandler of a ToolPlugin
InToolLoop(f) ==
    /\ f.rhIdx \in 1..Len(f.chain)
    /\ f.chain[f.rhIdx] \in ToolPlugins
    /\ f.pc = "wait" \/ (f.pc = "done" /\ f.outcome = "handled")

ToolLoopReturned(f) == InToolLoop(f) /\ f.pc = "done"

\* the round limit of a plugin instance, read off its configuration
RoundLimit(plugin) == IF plugin = "t1" THEN ToolRounds ELSE DefaultMaxRounds

\* C11: one call of ToolPlugin.RecursiveHandler invokes the inner pipeline at
\* most MaxRounds times (10 when MaxRounds is not positive), also when every
\* captured response holds an in-router tool call; after the last allowed
\* invocation it returns handled=true with the last capture replayed.
C11_ToolLoopBounded ==
    \A k \in Activations :
        LET f == stack[k]
        IN InToolLoop(f) =>
            /\ f.invocations = f.round + 1
            /\ f.invocations <= RoundLimit(f.chain[f.rhIdx])
            /\ (f.pc = "wait" /\ f.invocations = RoundLimit(f.chain[f.rhIdx])) =>
                    Len(stack) = k + 1
            /\ (ToolLoopReturned(f) /\ f.lastDispatch.handled > 0) =>
                    /\ f.invocations = RoundLimit(f.chain[f.rhIdx])
                    /\ f.rhLog[Len(f.rhLog)].handled
                    /\ f.w.body = f.replayed.body

C11_Witness ==
    \E k \in Activations :
        LET f == stack[k]
        IN /\ ToolLoopReturned(f)
           /\ f.chain[f.rhIdx] = "t2"
           /\ f.invocations = DefaultMaxRounds
           /\ f.handleCalls = DefaultMaxRounds
           /\ f.lastDispatch.handled = 1
           /\ f.w.body = f.replayed.body
           /\ f.w.body # <<>>

\* C12: when the captured response holds no tool call named by one of the
\* handler's DEF_NAME definitions, HandleToolCall is not called, no further
\* inner invocation is made, and the headers and body written to the real
\* writer are exactly the captured ones.
C12_PassThrough ==
    \A k \in Activations :
        LET f == stack[k]
            parsed == ParseCapturedResponse(f.replayed)
        IN (ToolLoopReturned(f) /\ (~parsed.ok \/ ToolFn(f.chain[f.rhIdx]) \notin parsed.calls)) =>
            /\ f.lastDispatch.calls = 0
            /\ f.round = 0 => f.handleCalls = 0
            /\ Len(stack) = k
            /\ f.invocations = f.round + 1
            /\ f.w.body = f.replayed.body
            /\ f.w.prov = f.replayed.prov
            /\ f.w.model = f.replayed.model
            /\ f.w.ctype = f.replayed.ctype

C12_Witness ==
    \E k \in Activations :
        LET f == stack[k]
            parsed == ParseCapturedResponse(f.replayed)
        IN /\ ToolLoopReturned(f)
           /\ f.chain[f.rhIdx] = "t2"
           /\ parsed.ok
           /\ parsed.calls = {ToolFn("t1")}
           /\ f.handleCalls = 0
           /\ f.invocations = 1
           /\ f.w.body = f.replayed.body
           /\ f.w.prov = f.replayed.prov /\ f.w.prov # <<>>

\* C13: during a tool-dispatch loop the real writer receives the bytes of
\* exactly one captured response, that of the final round; the captures of
\* earlier rounds, which held in-router tool calls, are never written.
C13_OnlyFinalRoundWritten ==
    \A k \in Activations :
        LET f == stack[k]
        IN InToolLoop(f) =>
            /\ f.pc = "wait" => (f.replays = 0 /\ f.w.body = <<>> /\ f.w.status = 0)
            /\ f.pc = "done" => (f.replays = 1 /\ f.w.body = f.replayed.body)

C13_Witness ==
    \E k \in Activations :
        LET f == stack[k]
        IN /\ ToolLoopReturned(f)
           /\ f.round = 2
           /\ f.handleCalls = 2
           /\ f.lastDispatch.calls = 0
           /\ f.replays = 1
           /\ f.w.body = f.replayed.body
           /\ HasFrame(f.w, "resp")

----------------------------------------------------------------------------
\* the number of frames of type t in a sequence of frames
CountFrames(frames, t) == Cardinality({k \in 1..Len(frames) : frames[k].t = t})

\* the serve call of attempt a received a RuntimeError item from the channel of
\* a stream that had started
GotRuntimeError(f, a) ==
    /\ f.prog.streaming /\ a.cmdCalled /\ a.outcome # "write"
    /\ a.up = "non2xx" \/ (a.up = "ok" /\ a.midErr)

Invoked(a) == a.outcome \notin Skipped

\* C17: after a failed write of an SSE frame the request is aborted: no
\* further frame is written and no further candidate provider is invoked.
C17_WriteFailureAborts ==
    \A n \in Activations : \A i \in 1..Len(stack[n].attempts) :
        stack[n].attempts[i].outcome = "write" =>
            \A j \in (i + 1)..Len(stack[n].attempts) :
                /\ ~Invoked(stack[n].attempts[j])
                /\ stack[n].attempts[j].wrote = <<>>

----------------------------------------------------------------------------
(* Properties of StreamSpec *)

\* the data frames of a writer's body, in order
DataFrames(w) == SelectSeq(w.body, LAMBDA fr : fr.t = "data")

\* the chunk programs ServeStreaming delivered: those that passed the AfterChunk
\* plugins and were written to the client
Delivered == [k \in 1..Len(DataFrames(serve.w)) |-> DataFrames(serve.w)[k].v]

\* C14: after a stream completes, the program handed to the StreamEnd plugins
\* is the assembly of all delivered chunk programs appended in order (for
\* deltas "he" and "llo" its text is "hello"), not only the last chunk.
C14_StreamEndAssembled ==
    \A k \in 1..Len(serve.streamEnd) :
        serve.streamEnd[k].text = Assemble(Delivered).text

\* C15: the heartbeat is the first frame written; the data frames carry the
\* chunks in the order in which the driver produced them, each one after it
\* passed the AfterChunk plugins; when the channel closes normally and the
\* client's connection holds, the done frame is the last frame.
C15_FrameOrder ==
    LET body == serve.w.body
        passed == SelectSeq(serve.afterChunk, LAMBDA e : e.ok)
    IN /\ \A k \in 1..Len(body) : body[k].t = "heartbeat" <=> k = 1
       /\ \A k \in 1..Len(serve.afterChunk) : serve.afterChunk[k].chunk = driver.produced[k]
       /\ Len(Delivered) <= Len(passed)
       /\ Len(passed) <= Len(Delivered) + (IF serve.err = "write" THEN 1 ELSE 0)
       /\ \A k \in 1..Len(Delivered) : Delivered[k] = passed[k].chunk
       /\ \A j, k \in 1..Len(Delivered) : j < k => Delivered[j].id < Delivered[k].id
       /\ (serve.pc = "returned" /\ serve.streamEnd # <<>> /\ ~serve.w.broken) =>
              \A k \in 1..Len(body) : body[k].t = "done" <=> k = Len(body)

\* a stream of two chunks, both written, closed normally
C15_Witness ==
    /\ serve.pc = "returned" /\ serve.err = "nil"
    /\ Len(Delivered) = 2 /\ Delivered[1].text = He /\ Delivered[2].text = Llo
    /\ serve.w.body[Len(serve.w.body)].t = "done"

\* C18: in every execution of a streaming request the driver's goroutine
\* eventually returns and closes its channel, also after ServeStreaming has
\* stopped receiving.
C18_DriverCloses == [](driver.pc # "idle" => <>(driver.pc = "closed"))

----------------------------------------------------------------------------
(* Properties of KVSpec *)

\* C19: for a MemoryStore with maxItems >= 1, after any sequence of Set, Get
\* and Delete the number of stored keys is at most maxItems.
C19_StoreBounded == Cardinality(DOMAIN store.data) <= store.maxItems

\* a store that is full after a Set evicted a key
C19_Witness ==
    /\ Cardinality(DOMAIN store.data) = store.maxItems
    /\ store.maxItems = MaxItems
    /\ store.lastSet.removed # {}

\* C20: eviction skips the entries of deleted keys: a Set of a new key removes a
\* live key only when the number of live keys has reached maxItems, and the
\* key it removes is the live key that was inserted earliest.
C20_EvictionSkipsTombstones ==
    store.lastSet.removed # {} =>
        /\ store.lastSet.liveBefore >= store.maxItems
        /\ store.lastSet.removed = {store.lastSet.oldest}

\* what Get of key has to return by the history of the calls: the value of the
\* most recent Set of the key unless the key was deleted or evicted since, or
\* the expiry time of that Set has passed
Expected(m, key) ==
    IF m.latest[key] = NoEntry \/ Expired(m.latest[key], m.now) THEN ErrNotFound
    ELSE m.latest[key].value

\* C21: Get(k) returns the value of the most recent Set(k) when that entry has
\* not been deleted, evicted or passed its expiry time, and ErrNotFound in
\* every other case; an expired entry is reported as ErrNotFound at read time
\* although it is still stored.
C21_GetReturnsLatest ==
    /\ store.got.key # NoKey => store.got.result = Expected(store, store.got.key)
    /\ \A k \in Keys :
          /\ MemGet(store, k) = Expected(store, k)
          /\ (store.latest[k] # NoEntry /\ Expired(store.latest[k], store.now)) =>
                k \in DOMAIN store.data

\* a Get that reports ErrNotFound for an expired entry that is still stored
\* and had been overwritten with another value
C21_Witness ==
    /\ store.got.key # NoKey
    /\ store.got.result = ErrNotFound
    /\ store.got.key \in DOMAIN store.data
    /\ store.data[store.got.key].value = "v2"

\* C22: an entry stored by Set with ttl zero never expires: Get returns it at
\* every later time until the key is deleted, overwritten or evicted.
C22_ZeroTTLNeverExpires ==
    \A k \in DOMAIN store.data :
        store.data[k].ttl = 0 => MemGet(store, k) = store.data[k].value

----------------------------------------------------------------------------
(* Properties of Spec: trace id and KvTools *)

\* plugin hooks ran in activation f: recursive handlers or Before plugins
HooksRan(f) ==
    \/ f.rhLog # <<>>
    \/ \E i \in 1..Len(f.attempts) : f.attempts[i].before # <<>>

\* C24: the trace id is one value per client request: the hooks run inside the
\* re-entries made through InvokeHandler read from the request context the
\* trace id that the outermost RecursiveHandler read.
C24_OneTracePerRequest ==
    \A k \in Activations :
        HooksRan(stack[k]) => stack[k].ctx.trace = stack[1].ctx.trace

\* the results KvTools.Before stored in this client request for call id c
Cached(c) == IF store = NoStore THEN {}
             ELSE {store.data[k].value : k \in {x \in DOMAIN store.data : x[2] = c}}

\* activation f is in, or has returned from, the RecursiveHandler of plugin
RunsToolPlugin(f, plugin) ==
    f.rhIdx \in 1..Len(f.chain) /\ f.chain[f.rhIdx] = plugin /\ f.invocations > 0

\* C23: after KvTools.Before has stripped an earlier interaction whose result
\* for call id c carried d, a get_tool_result call for c that the plugin
\* dispatches in the same client request returns d.
C23_GetToolResultReturnsCached ==
    \A k \in Activations :
        (stack[k].pc \in {"wait", "done"} /\ RunsToolPlugin(stack[k], "kv")) =>
            \A i \in 1..Len(stack[k].toolResults) :
                Cached(AskedCallID) # {} => stack[k].toolResults[i].data \in Cached(AskedCallID)

\* message item i is an assistant message with tool calls
IsHead(code, i) == code[i].kind = "msg" /\ code[i].role = "ast" /\ code[i].calls > 0

Heads(code) == {i \in 1..Len(code) : IsHead(code, i)}

\* message item i is a tool result of the interaction that h starts: only
\* tool-result messages lie between the two
ResultOf(code, i, h) ==
    /\ IsHead(code, h) /\ h < i
    /\ \A j \in (h + 1)..i : code[j].kind = "msg" => code[j].role = "tool"
    /\ code[i].kind = "msg"

Max(S) == CHOOSE x \in S : \A y \in S : x >= y

\* what the stripped program holds in place of item i
Stripped(code, i) ==
    IF IsHead(code, i) /\ i < Max(Heads(code))
    THEN IF code[i].text # "" THEN <<[code[i] EXCEPT !.calls = 0]>> ELSE <<>>
    ELSE IF \E h \in Heads(code) : h < Max(Heads(code)) /\ ResultOf(code, i, h)
    THEN <<>>
    ELSE <<code[i]>>

RECURSIVE StrippedUpTo(_, _)
StrippedUpTo(code, n) == IF n = 0 THEN <<>> ELSE StrippedUpTo(code, n - 1) \o Stripped(code, n)

\* C25: for a program with at least 2 tool interactions StripTools.Before
\* returns the program in which the last interaction is unchanged, the
\* assistant message of every earlier interaction is kept without its calls
\* when it has text and dropped otherwise, the tool-result messages of every
\* earlier interaction are dropped, and every other message and instruction
\* is unchanged and in place; with 0 or 1 interactions the program is returned
\* unchanged.
C25_StripToolsKeepsLast ==
    hook.op = "stools" =>
        IF Cardinality(Heads(hook.prog.code)) >= 2
        THEN hook.out.code = StrippedUpTo(hook.prog.code, Len(hook.prog.code))
        ELSE hook.out = hook.prog

C25_Witness ==
    /\ hook.op = "stools"
    /\ Cardinality(Heads(hook.prog.code)) >= 2
    /\ \E i \in Heads(hook.prog.code) : i < Max(Heads(hook.prog.code)) /\ hook.prog.code[i].text # ""
    /\ \E i \in 1..Len(hook.out.code) : hook.out.code[i] = Item("msg", "ast", "a", 0)
    /\ \E i \in 1..Len(hook.out.code) : hook.out.code[i].role = "tool"
    /\ hook.out.code # hook.prog.code

MessagesOf(code) == SelectSeq(code, LAMBDA x : x.kind = "msg")

\* C26: SlidingWindow.Before returns a program whose messages are the first
\* keepStart and the last keepEnd messages of the input in their order (all
\* of them when keepStart + keepEnd is at least their number), and whose
\* instructions outside messages are those of the input.
C26_SlidingWindowKeeps ==
    hook.op = "slwin" =>
        LET win == Window(hook.params)
            msgs == MessagesOf(hook.prog.code)
            total == Len(msgs)
        IN /\ MessagesOf(hook.out.code) =
                IF win.keepStart + win.keepEnd >= total THEN msgs
                ELSE SubSeq(msgs, 1, win.keepStart) \o SubSeq(msgs, total - win.keepEnd + 1, total)
           /\ SelectSeq(hook.out.code, LAMBDA x : x.kind # "msg")
                = SelectSeq(hook.prog.code, LAMBDA x : x.kind # "msg")

C26_Witness ==
    /\ hook.op = "slwin"
    /\ Window(hook.params).keepStart >= 1
    /\ Len(MessagesOf(hook.prog.code)) > Window(hook.params).keepStart + Window(hook.params).keepEnd
    /\ Len(MessagesOf(hook.out.code)) = Window(hook.params).keepStart + Window(hook.params).keepEnd
    /\ \E i \in 2..Len(hook.out.code) : hook.out.code[i].kind = "instr"


\* the providers in scope for a model name: the named one for a prefixed
\* model, every provisioned provider for a bare name
InScope(model) ==
    IF model.prefix # "" THEN {ToLower(model.prefix)} \cap ProviderNames
    ELSE {ProviderLister[i] : i \in 1..Len(ProviderLister)}

Lists(listed, p, id) == \E i \in 1..Len(listed[p]) : listed[p][i] = id

\* C27: Fuzz.RewriteModel returns matched=false whenever the partial name
\* is exactly a model id listed by a provider in scope: the named provider
\* for a prefixed model, any provider of the waterfall for a bare name.
C27_ExactMatchNoRewrite ==
    hook.op = "fuzz" =>
        ((\E p \in InScope(hook.model) : Lists(hook.listed, p, hook.model.base))
            => ~hook.out.matched)

\* the part of C27 about prefixed names
C27_PrefixedExactNoRewrite ==
    (hook.op = "fuzz" /\ hook.model.prefix # "") =>
        ((\E p \in InScope(hook.model) : Lists(hook.listed, p, hook.model.base))
            => ~hook.out.matched /\ hook.out.model = hook.model)


\* C28: whenever an After plugin returns an error on a provider's complete
\* non-streaming response, the client response is HTTP 500; a later candidate
\* provider answering successfully does not mask the failure.
C28_AfterErrorIs500 ==
    \A n \in Activations :
        LET f == stack[n]
        IN (f.w.client /\ f.pc = "done"
            /\ \E i \in 1..Len(f.attempts) : f.attempts[i].outcome = "after")
           => f.w.status = 500


CapableAt(kind, chain) == {i \in 1..Len(chain) : Capable(kind, chain[i].plugin)}

\* C30: RunBefore and RunAfter call the capable plugins in insertion order,
\* pass each plugin the program the previous one returned, and on the first
\* plugin error stop without calling a later plugin and return that error
\* with no program.
C30_ListHooksFeedForward ==
    hook.op = "run" =>
        LET calls == hook.out.calls
            cap == CapableAt(hook.kind, hook.chain)
        IN /\ \A k \in 1..(Len(calls) - 1) : calls[k].at < calls[k + 1].at
           /\ {calls[k].at : k \in 1..Len(calls)} =
                 IF hook.failAt = 0 THEN cap ELSE {i \in cap : i <= hook.failAt}
           /\ Len(calls) > 0 => calls[1].arg = hook.arg
           /\ \A k \in 1..(Len(calls) - 1) :
                 calls[k + 1].arg = CallHook(hook.kind, hook.chain[calls[k].at], calls[k].arg)
           /\ IF hook.failAt # 0
              THEN hook.out.err # "nil" /\ hook.out.prog = NilProg
              ELSE /\ hook.out.err = "nil"
                   /\ hook.out.prog =
                        IF Len(calls) = 0 THEN hook.arg
                        ELSE CallHook(hook.kind, hook.chain[calls[Len(calls)].at], calls[Len(calls)].arg)

\* a hook fails behind one that changed the program and in front of a capable one
C30_Witness ==
    /\ hook.op = "run" /\ hook.failAt # 0
    /\ Len(hook.out.calls) >= 2
    /\ hook.out.calls[2].arg # hook.out.calls[1].arg
    /\ \E i \in CapableAt(hook.kind, hook.chain) : i > hook.failAt

\* C31: once the DSPy plugin has called the sidecar for a request, the
\* request context holds the plugin's recursion guard, so that a further
\* RecursiveHandler call with this context returns handled=false.
C31_GuardInstalledBeforeSidecar ==
    \A n \in Activations :
        stack[n].sidecar \in SidecarCalled => GuardSeen(stack[n].ctx, "dspy")

\* C33: parseParams returns the kind "react" with the signature
\* "history, question -> answer" for the empty params string, and the kind
\* "react" when the part in front of the first ':' is empty.
C33_ParseParamsDefaults ==
    hook.op = "parseParams" =>
        /\ hook.params = <<>> =>
              hook.out = [kind |-> <<"react">>, signature |-> <<"history, question -> answer">>]
        /\ (hook.params # <<>> /\ Head(hook.params) = ":") => hook.out.kind = <<"react">>

\* C39: when RequestPreamble has returned, the chain it returned is the
\* chain resolved for the model it stored in the program, also when the
\* rewrite loop ended at the depth bound.
C39_ChainOfFinalModel ==
    \A n \in Activations :
        stack[n].resolutions > 0 =>
            stack[n].chain = TryResolvePlugins(cfg, stack[n].prog.model)

\* the number of times the hook of plugin i was called by the walk
TimesCalled(calls, i) == Cardinality({k \in 1..Len(calls) : calls[k] = i})

\* C40: at the end of a stream without a RuntimeError every plugin of the
\* chain that implements StreamEnd is called exactly once, also when an
\* earlier StreamEnd plugin returned an error.
C40_EveryStreamEndCalled ==
    (hook.op = "side" /\ hook.kind = "streamEnd") =>
        \A i \in SideCapableAt("streamEnd", hook.chain) : TimesCalled(hook.out.calls, i) = 1

\* RunError calls every Error plugin once whatever the earlier ones returned
C40_EveryErrorPluginCalled ==
    (hook.op = "side" /\ hook.kind = "error") =>
        /\ \A i \in SideCapableAt("error", hook.chain) : TimesCalled(hook.out.calls, i) = 1
        /\ hook.out.err = "nil"

\* the status a client sees for a response written with the recorded status
\* (a response written without WriteHeader goes out as 200)
StatusOnWire(status) == IF status = 0 THEN 200 ELSE status

\* C36: when a ToolPlugin has replayed a capture to the client's writer, the
\* client's status is the one recorded in the capture: a captured 404 or 500
\* does not reach the client as a 200.
C36_ReplayKeepsStatus ==
    \A n \in Activations :
        (stack[n].replays > 0 /\ stack[n].w.client) =>
            stack[n].w.status = StatusOnWire(stack[n].replayed.status)

\* C37: in the response of one client at most one [DONE] terminator is
\* written and nothing is written behind it, also when a stream start fails
\* on one provider and the next candidate is tried, and when a recursive
\* handler returns an error after it has streamed.
C37_DoneIsLast ==
    \A n \in Activations :
        stack[n].w.client =>
            LET b == stack[n].w.body
            IN \A i \in 1..Len(b) : b[i].t = "done" => i = Len(b)

\* C34: every provider attempt hands RunBefore a fresh clone of the caller's
\* program with the resolved model set: what the Before plugins of a failed
\* attempt did to their program shows neither in the program of the next
\* attempt nor in the caller's program.
C34_AttemptsStartFromFreshClone ==
    hook.op = "loop" =>
        LET o == hook.out
        IN /\ o.heap[1] = hook.prog
           /\ \A k \in 1..Len(o.attempts) :
                 /\ o.attempts[k].given = ProgSetModel(hook.prog, ResolvedModel)
                 /\ o.attempts[k].cloneRef # 1
                 /\ \A j \in 1..(k - 1) : o.attempts[j].cloneRef # o.attempts[k].cloneRef

\* a second attempt was made after the SlidingWindow hook of the first had
\* changed the first attempt's program in place
C34_Witness ==
    /\ hook.op = "loop" /\ hook.inplace
    /\ Len(hook.out.attempts) = 2
    /\ hook.out.heap[hook.out.attempts[1].cloneRef] # hook.out.attempts[1].given

\* C35: the rounds of a ToolPlugin are sequential and append-only: the
\* program sent in a round is the program sent in the round before followed
\* by the assistant's messages of that round's response and the result
\* blocks of its dispatched calls; a round starts when the response of the
\* round before has been parsed and its calls dispatched.
C35_RoundsAppendOnly ==
    \A n \in Activations :
        LET f == stack[n]
        IN /\ \A k \in 1..(Len(f.sent) - 1) :
                 /\ k <= Len(f.toolResults)
                 /\ f.sent[k + 1] = [f.sent[k] EXCEPT !.tools = Append(@, f.toolResults[k])]
           /\ f.pc = "wait" => (Len(f.sent) = f.round + 1 /\ Len(f.toolResults) = f.round)

\* apart from the model string, each round's program is the one of the round
\* before with that round's messages and results appended
C35_AppendOnlyApartFromModel ==
    \A n \in Activations :
        LET f == stack[n]
        IN \A k \in 1..(Len(f.sent) - 1) :
              /\ k <= Len(f.toolResults)
              /\ [f.sent[k + 1] EXCEPT !.model = f.sent[k].model] =
                     [f.sent[k] EXCEPT !.tools = Append(@, f.toolResults[k])]

\* C38: under concurrent requests every call of KvTools.ensureStore returns
\* the same store instance, so that a value cached by a hook call is found
\* by every later lookup made through the plugin.
C38_OneStoreInstance ==
    kvt.op = "ensure" =>
        /\ Cardinality(kvt.returned) <= 1
        /\ \A c \in Callers : kvt.procs[c].pc = "end" => kvt.procs[c].found

\* no worker is at its send with the channel's buffer full
NoWorkerBlocks ==
    \A t \in Tasks(swarm.n) : swarm.w[t] = "send" => Len(swarm.chan) < chanCap(swarm.n)

\* the returned list holds one result per task, Complete=false for a failed worker
OneResultPerTask ==
    /\ Len(swarm.results) = swarm.n
    /\ \A t \in Tasks(swarm.n) :
          \E k \in 1..Len(swarm.results) :
             swarm.results[k] = [TaskID |-> t, Complete |-> ~swarm.err[t]]

AllWorkersFinished ==
    swarm.op = "swarm" /\ swarm.main # "spawn" /\ \A t \in Tasks(swarm.n) : swarm.w[t] = "done"

\* C32: executeWorkersInParallel returns exactly one SwarmResult per task
\* for every interleaving of the workers (Complete=false for a failed
\* worker), no worker ever blocks on sending its result, and the collection
\* loop ends once all workers have finished.
C32_SwarmCollectsAll ==
    /\ [](swarm.op = "swarm" => (NoWorkerBlocks /\ (swarm.main = "returned" => OneResultPerTask)))
    /\ (AllWorkersFinished ~> (swarm.op = "swarm" /\ swarm.main = "returned"))

\* a swarm has returned with a failed worker, its results not in task order
C32_Witness ==
    /\ swarm.op = "swarm" /\ swarm.main = "returned" /\ swarm.n = MaxTasks
    /\ \E t \in Tasks(swarm.n) : swarm.err[t]
    /\ swarm.results[1].TaskID # 1

====
